---- MODULE Spec2Model ----
(***************************************************************************)
(* A model of django-pyston's serialization layer: the field-set           *)
(* resolution of ModelSerializer, the cycle guard of the model recursion,  *)
(* the value-serializer registry and its dispatch, RawVerboseValue, and    *)
(* the lazily initialised converter registry.                              *)
(*                                                                         *)
(* Each part of the program has its own specification over the shared      *)
(* variables; the variables of the other parts stay at their idle values.  *)
(***************************************************************************)
EXTENDS Integers, Sequences, FiniteSets, TLC

VARIABLES
    fsIn,               \* arguments of the _get_fieldset call under study
    fsOut,              \* what that call returned (or raised)
    rel,                \* the object graph: rel[o] = objects o's relation fields point to
    stack,              \* the active ModelSerializer._to_python calls, outermost first
    emitted,            \* every ModelSerializer._to_python call made so far, in call order
    value_serializers,  \* serializer.py: the value serializer registry (front first)
    loaded,             \* number of @register decorators of serializer.py already run
    registerLog,        \* the classes register() was given, in order of their first call
    lastRegister,       \* the last register(klass) call and what it returned
    dispatched,         \* the last _to_python_chain call and its outcome
    rvIn,               \* a RawVerboseValue and a serialization format
    rvOut,              \* the value get_value returned for it
    CONVERTERS,         \* settings.CONVERTERS: the configured converter classes
    converters,         \* converters/__init__.py: the converter registry (an OrderedDict)
    convCall,           \* the last registry call made sequentially, with its result
    regRuns,            \* number of register_converters runs started
    tpc,                \* per thread: position inside its registry call
    tcall,              \* per thread: the call it is making
    tidx,               \* per thread: index into CONVERTERS inside register_converters
    tres,               \* per thread: result of its last finished call
    lateWrites,         \* number of writes made to an already complete registry
    callIn,             \* arguments and environment of the single call under study
    callOut             \* what that call returned, raised and did

fsVars    == <<fsIn, fsOut>>
graphVars == <<rel, stack, emitted>>
regVars   == <<value_serializers, loaded, registerLog, lastRegister, dispatched>>
rvVars    == <<rvIn, rvOut>>
convVars  == <<CONVERTERS, converters, convCall, regRuns>>
thrVars   == <<tpc, tcall, tidx, tres, lateWrites>>
callVars  == <<callIn, callOut>>
vars      == <<fsVars, graphVars, regVars, rvVars, convVars, thrVars, callVars>>

Range(s) == {s[i] : i \in DOMAIN s}

(***************************************************************************)
(* Field sets.  An RFS is an ordered collection of distinct field names;   *)
(* None and the empty RFS are both falsy and are both written << >>.       *)
(***************************************************************************)

\* rfs(iterable): a fresh RFS holding the names once each, first occurrence first
RECURSIVE rfs(_)
rfs(names) ==
    IF names = << >> THEN << >>
    ELSE LET front == rfs(SubSeq(names, 1, Len(names) - 1))
             last  == names[Len(names)]
         IN  IF last \in Range(front) THEN front ELSE Append(front, last)

\* RFS.join: the receiver extended by the fields of other it lacks
join(self, other) == self \o SelectSeq(other, LAMBDA f : f \notin Range(self))

\* RFS.intersection: the receiver's fields that other also holds
intersection(self, other) == SelectSeq(self, LAMBDA f : f \in Range(other))

\* RFS.extend_fields_fieldsets: the receiver extended with the default fields
extend_fields_fieldsets(self, default) == join(self, default)

\* RFS.subtract: the receiver without the named fields
subtract(self, names) == SelectSeq(self, LAMBDA f : f \notin Range(names))

(***************************************************************************)
(* patch.py: the options object RESTOptions builds from a model's RESTMeta *)
(***************************************************************************)

\* get_last_parent_pk_field_name: every model of the study keeps its key in "id"
get_last_parent_pk_field_name == "id"

\* Options._getattr: the declared value, or the default when RESTMeta lacks it
getattr_or(decl, name, default) == IF name \in DOMAIN decl THEN decl[name] ELSE default

\* merge_iterable(a, b): list(a) + list(b) without repeats, first occurrence first
merge_iterable(a, b) == rfs(a \o b)

\* The fields RESTOptions.__init__ hands to merge_iterable as a Python set
UndistributedFields(decl) ==
    LET fields == getattr_or(decl, "fields", << >>)
        pk     == get_last_parent_pk_field_name
    IN  ((Range(fields) \ Range(getattr_or(decl, "detailed_fields", fields)))
            \ Range(getattr_or(decl, "general_fields", fields)))
            \ Range(getattr_or(decl, "default_fields", <<pk, "_obj_name">>))

\* RESTOptions.__init__; setOrder is the order in which the set above is iterated
RESTOptions(decl, setOrder) ==
    LET pk     == get_last_parent_pk_field_name
        fields == getattr_or(decl, "fields", << >>)
    IN  [ default_fields  |-> getattr_or(decl, "default_fields", <<pk, "_obj_name">>),
          detailed_fields |-> getattr_or(decl, "detailed_fields", fields),
          general_fields  |-> getattr_or(decl, "general_fields", fields),
          direct_serialization_fields |->
                              getattr_or(decl, "direct_serialization_fields", fields),
          extra_fields    |-> merge_iterable(getattr_or(decl, "extra_fields", << >>),
                                             setOrder),
          guest_fields    |-> getattr_or(decl, "guest_fields", <<pk, "_obj_name">>) ]

(***************************************************************************)
(* serializer.py: ModelSerializer._get_fieldset                            *)
(*                                                                         *)
(* An object is a record [db_table, pk, resource, rest_meta]: resource is  *)
(* NoResource or what the bound resource answers for the object, rest_meta *)
(* is the options object of its model.                                     *)
(***************************************************************************)

NoResource == [bound |-> FALSE]

\* ModelSerializer._get_obj_serialization_name: '{db_table}__{pk}'
_get_obj_serialization_name(obj) == <<obj.db_table, "__", obj.pk>>

\* ModelSerializer._get_fieldset_from_resource
_get_fieldset_from_resource(model_resource, detailed, has_get_permission) ==
    IF ~has_get_permission THEN model_resource.guest_fields
    ELSE IF detailed THEN model_resource.default_detailed_fields
    ELSE model_resource.default_general_fields

\* Mutant: the allowed fieldset taken from get_fields whatever the permission
allowed_fieldset_ignoring_permission(model_resource, has_get_permission) ==
    model_resource.fields

\* ModelSerializer._get_allowed_fieldset_from_resource
_get_allowed_fieldset_from_resource(model_resource, has_get_permission) ==
    IF ~has_get_permission THEN model_resource.guest_fields
    ELSE model_resource.fields

\* has_get_permission as _get_fieldset computes it
resource_has_permission(model_resource) ==
    \/ model_resource.has_get_permission
    \/ model_resource.has_post_permission
    \/ model_resource.has_put_permission

\* The attributes the unbound, direct, nothing-requested branch reads from _rest_meta
DirectAllowedAttributes ==
    <<"extra_fields", "default_general_fields", "default_detailed_fields",
      "direct_serialization_fields">>

\* Mutant: the guest fields allowed in direct serialization too
unbound_allowed_guest_only(rest_meta, requested_fieldset, direct_serialization) ==
    [err |-> "none", value |-> rfs(rest_meta.guest_fields), aliased |-> FALSE]

\* allowed_fieldset of an unbound object; requested_fieldset itself is returned
\* (not a copy) when it is truthy in direct serialization
unbound_allowed_fieldset(rest_meta, requested_fieldset, direct_serialization) ==
    IF direct_serialization
    THEN IF requested_fieldset # << >>
         THEN [err |-> "none", value |-> requested_fieldset, aliased |-> TRUE]
         ELSE IF Range(DirectAllowedAttributes) \subseteq DOMAIN rest_meta
              THEN [err |-> "none", aliased |-> FALSE,
                    value |-> join(join(join(rfs(rest_meta["extra_fields"]),
                                             rfs(rest_meta["default_general_fields"])),
                                        rfs(rest_meta["default_detailed_fields"])),
                                   rfs(rest_meta["direct_serialization_fields"]))]
              ELSE [err |-> "AttributeError", value |-> << >>, aliased |-> FALSE]
    ELSE [err |-> "none", value |-> rfs(rest_meta.guest_fields), aliased |-> FALSE]

\* default_fieldset of an unbound object
unbound_default_fieldset(rest_meta, direct_serialization) ==
    IF direct_serialization THEN rfs(rest_meta.direct_serialization_fields)
    ELSE rfs(rest_meta.guest_fields)

\* Mutant: the requested fields intersected with the allowed ones, the default
\* fields never added
combine_fieldsets_without_defaults(default0, allowed0, aliased, extended_fieldset, requested_fieldset, exclude_fields) ==
    LET default   == IF extended_fieldset # << >>
                     THEN join(default0, extended_fieldset) ELSE default0
        allowed   == IF extended_fieldset # << >>
                     THEN join(allowed0, extended_fieldset) ELSE allowed0
        requested == IF aliased THEN allowed ELSE requested_fieldset
        fieldset  == IF requested # << >>
                     THEN intersection(rfs(requested), allowed)
                     ELSE intersection(default, allowed)
    IN  [ err |-> "none", short |-> FALSE, default |-> default, allowed |-> allowed,
          requested |-> requested,
          fieldset |-> IF exclude_fields # << >>
                       THEN subtract(fieldset, exclude_fields) ELSE fieldset ]

\* Lines 450-462: join the extended fieldset, combine, subtract the excluded fields.
\* When allowed_fieldset is the requested fieldset object, the join changes both.
combine_fieldsets(default0, allowed0, aliased, extended_fieldset, requested_fieldset, exclude_fields) ==
    LET default   == IF extended_fieldset # << >>
                     THEN join(default0, extended_fieldset) ELSE default0
        allowed   == IF extended_fieldset # << >>
                     THEN join(allowed0, extended_fieldset) ELSE allowed0
        requested == IF aliased THEN allowed ELSE requested_fieldset
        fieldset  == IF requested # << >>
                     THEN extend_fields_fieldsets(intersection(rfs(requested), allowed),
                                                  default)
                     ELSE intersection(default, allowed)
    IN  [ err |-> "none", short |-> FALSE, default |-> default, allowed |-> allowed,
          requested |-> requested,
          fieldset |-> IF exclude_fields # << >>
                       THEN subtract(fieldset, exclude_fields) ELSE fieldset ]

\* ModelSerializer._get_fieldset
_get_fieldset(obj, extended_fieldset, requested_fieldset, exclude_fields, detailed, direct_serialization, serialized_objects) ==
    IF _get_obj_serialization_name(obj) \in serialized_objects
    THEN [ err |-> "none", short |-> TRUE, default |-> << >>, allowed |-> << >>,
           requested |-> requested_fieldset,
           fieldset |-> rfs(<<get_last_parent_pk_field_name>>) ]
    ELSE IF obj.resource.bound
    THEN LET has_get_permission == resource_has_permission(obj.resource)
         IN  combine_fieldsets(
                 _get_fieldset_from_resource(obj.resource, detailed, has_get_permission),
                 _get_allowed_fieldset_from_resource(obj.resource, has_get_permission),
                 FALSE, extended_fieldset, requested_fieldset, exclude_fields)
    ELSE LET allowed == unbound_allowed_fieldset(obj.rest_meta, requested_fieldset,
                                                 direct_serialization)
         IN  IF allowed.err # "none"
             THEN [ err |-> allowed.err, short |-> FALSE, default |-> << >>,
                    allowed |-> << >>, requested |-> requested_fieldset,
                    fieldset |-> << >> ]
             ELSE combine_fieldsets(
                      unbound_default_fieldset(obj.rest_meta, direct_serialization),
                      allowed.value, allowed.aliased, extended_fieldset,
                      requested_fieldset, exclude_fields)

(***************************************************************************)
(* Idle values: what a part's variables hold in the other specifications   *)
(***************************************************************************)

NoReturn ==
    [ err |-> "none", short |-> FALSE, default |-> << >>, allowed |-> << >>,
      requested |-> << >>, fieldset |-> << >> ]

FsIdle    == fsIn = [idle |-> TRUE] /\ fsOut = [called |-> FALSE, ret |-> NoReturn]
GraphIdle == rel = << >> /\ stack = << >> /\ emitted = << >>
RegIdle   == /\ value_serializers = << >>
             /\ loaded = 0
             /\ registerLog = << >>
             /\ lastRegister = [idle |-> TRUE]
             /\ dispatched = [idle |-> TRUE]
RvIdle    == rvIn = [idle |-> TRUE] /\ rvOut = [idle |-> TRUE]
ConvIdle  == /\ CONVERTERS = << >>
             /\ converters = << >>
             /\ convCall = [idle |-> TRUE]
             /\ regRuns = 0
ThrIdle   == /\ tpc = << >>
             /\ tcall = << >>
             /\ tidx = << >>
             /\ tres = << >>
             /\ lateWrites = 0
CallIdle  == callIn = [idle |-> TRUE] /\ callOut = [idle |-> TRUE]

(***************************************************************************)
(* SpecFieldset: one _get_fieldset call on every combination of arguments  *)
(***************************************************************************)

\* exclude_fields comes from _get_reverse_excluded_fields: a short list of names
MaxExclude == 1

AllFields  == <<"id", "name", "email">>
FieldNames == Range(AllFields)

\* The subset S of the field names as a list in declaration order
ListOf(S) == SelectSeq(AllFields, LAMBDA f : f \in S)

FieldLists   == {ListOf(S) : S \in SUBSET FieldNames}
ExcludeLists == {ListOf(S) : S \in {T \in SUBSET FieldNames : Cardinality(T) <= MaxExclude}}

\* What a bound resource may declare: guest fields, all readable fields, and the
\* default fields of a detailed and of a general (collection) request
ResourceFieldsets ==
    { [ guest_fields |-> <<"id">>, fields |-> <<"id", "name", "email">>,
        default_detailed_fields |-> <<"id", "name", "email">>,
        default_general_fields |-> <<"id", "name">> ],
      [ guest_fields |-> <<"id", "name">>, fields |-> <<"id", "name">>,
        default_detailed_fields |-> <<"id", "name">>,
        default_general_fields |-> <<"id">> ],
      [ guest_fields |-> <<"id">>, fields |-> <<"id", "name">>,
        default_detailed_fields |-> <<"id", "email">>,
        default_general_fields |-> <<"name", "email">> ],
      [ guest_fields |-> << >>, fields |-> <<"email", "id">>,
        default_detailed_fields |-> <<"email", "id">>,
        default_general_fields |-> <<"id">> ] }

BoundResources ==
    { [ bound |-> TRUE, has_get_permission |-> g, has_post_permission |-> p,
        has_put_permission |-> u, guest_fields |-> r.guest_fields, fields |-> r.fields,
        default_detailed_fields |-> r.default_detailed_fields,
        default_general_fields |-> r.default_general_fields ] :
      g \in BOOLEAN, p \in BOOLEAN, u \in BOOLEAN, r \in ResourceFieldsets }

\* RESTMeta declarations of the models of the study (absent attributes take
\* the defaults of RESTOptions)
ModelDecls ==
    { << >>,
      [ fields |-> <<"id", "name", "email">> ],
      [ fields |-> <<"id", "name">>, direct_serialization_fields |-> <<"id", "email">>,
        guest_fields |-> <<"id">> ],
      [ fields |-> <<"id", "name", "email">>, detailed_fields |-> <<"id", "name">>,
        general_fields |-> <<"id">>, default_fields |-> <<"id">>,
        guest_fields |-> <<"name">> ] }

\* Every order in which a Python set holding S may be iterated
Orders(S) == {o \in [1..Cardinality(S) -> S] : Range(o) = S}

RestMetas == UNION {{RESTOptions(d, o) : o \in Orders(UndistributedFields(d))} : d \in ModelDecls}

FsObjects ==
    {[db_table |-> "app_model", pk |-> 1, resource |-> r,
      rest_meta |-> RESTOptions(<< >>, << >>)] : r \in BoundResources}
    \cup {[db_table |-> "app_model", pk |-> 1, resource |-> NoResource,
           rest_meta |-> m] : m \in RestMetas}

InitFieldset ==
    /\ fsIn \in [ obj : FsObjects, extended_fieldset : FieldLists,
                   requested_fieldset : FieldLists, exclude_fields : ExcludeLists,
                   detailed : BOOLEAN, direct_serialization : BOOLEAN,
                   serialized_objects : {{}, {<<"app_model", "__", 1>>}} ]
    /\ fsOut = [called |-> FALSE, ret |-> NoReturn]
    /\ GraphIdle /\ RegIdle /\ RvIdle /\ ConvIdle /\ ThrIdle /\ CallIdle

\* The call ModelSerializer._to_python makes at line 472
GetFieldset ==
    /\ ~fsOut.called
    /\ fsOut' = [ called |-> TRUE,
                  ret |-> _get_fieldset(fsIn.obj, fsIn.extended_fieldset,
                                        fsIn.requested_fieldset, fsIn.exclude_fields,
                                        fsIn.detailed, fsIn.direct_serialization,
                                        fsIn.serialized_objects) ]
    /\ UNCHANGED <<fsIn, graphVars, regVars, rvVars, convVars, thrVars, callVars>>

NextFieldset == GetFieldset

SpecFieldset == InitFieldset /\ [][NextFieldset]_vars

FsCalled    == fsOut.called
FsBound     == fsIn.obj.resource.bound
FsGuestOnly == FsBound /\ ~resource_has_permission(fsIn.obj.resource)

\* C2 (as stated): for an object bound to a resource that grants neither get, post
\* nor put permission, every field of the fieldset _get_fieldset resolves is one of
\* the resource's guest fields, whatever is requested, extended or excluded.
C2_GuestFieldsOnly ==
    (FsCalled /\ FsGuestOnly)
        => Range(fsOut.ret.fieldset) \subseteq Range(fsIn.obj.resource.guest_fields)

\* C2 (amended): without get, post and put permission, an object not yet serialized
\* in the call resolves only to guest fields and fields of the extended fieldset
\* (the parent field's subfieldset is joined into the allowed set for guests too);
\* an object already serialized resolves to its primary-key field alone.
C2_GuestOrExtendedOnly ==
    (FsCalled /\ FsGuestOnly)
        => IF fsOut.ret.short
           THEN fsOut.ret.fieldset = <<get_last_parent_pk_field_name>>
           ELSE Range(fsOut.ret.fieldset) \subseteq
                    (Range(fsIn.obj.resource.guest_fields)
                        \cup Range(fsIn.extended_fieldset))

\* C2 witness: a guest is shown a field that only the extended fieldset brought in,
\* although a requested fieldset and an excluded field were given too.
C2_Witness ==
    /\ FsCalled /\ FsGuestOnly /\ ~fsOut.ret.short
    /\ fsIn.requested_fieldset # << >> /\ fsIn.exclude_fields # << >>
    /\ \E f \in Range(fsOut.ret.fieldset) :
          /\ f \notin Range(fsIn.obj.resource.guest_fields)
          /\ f \in Range(fsIn.extended_fieldset)
    /\ \E f \in Range(fsIn.requested_fieldset) : f \notin Range(fsOut.ret.fieldset)

FsDirectRequested ==
    /\ FsCalled /\ ~FsBound /\ fsIn.direct_serialization
    /\ fsIn.requested_fieldset # << >> /\ ~fsOut.ret.short

\* Every field list a model's options object declares
DeclaredFields(rest_meta) == UNION {Range(rest_meta[a]) : a \in DOMAIN rest_meta}

\* C4 (as stated): for an unbound object in direct serialization with a requested
\* fieldset, the allowed set is the union of the model's extra, general, detailed and
\* direct-serialization fields, so a requested field outside the model's declared
\* fields (and outside the extended fieldset) is never emitted.
C4_AllowedIsDeclaredUnion ==
    FsDirectRequested
        => Range(fsOut.ret.fieldset) \subseteq
               (DeclaredFields(fsIn.obj.rest_meta) \cup Range(fsIn.extended_fieldset))

\* C4 (amended): for an unbound object in direct serialization with a requested
\* fieldset, _get_fieldset completes and the allowed set is the requested fieldset
\* itself (joined with the extended fieldset when there is one), so every requested
\* field that is not excluded is emitted, declared on the model or not.
C4_AllowedIsRequested ==
    FsDirectRequested
        => /\ fsOut.ret.err = "none"
           /\ Range(fsOut.ret.allowed) =
                  Range(fsIn.requested_fieldset) \cup Range(fsIn.extended_fieldset)
           /\ (Range(fsIn.requested_fieldset) \ Range(fsIn.exclude_fields))
                  \subseteq Range(fsOut.ret.fieldset)

\* C4 witness: a requested field that no list of the model declares is emitted.
C4_Witness ==
    /\ FsDirectRequested
    /\ \E f \in Range(fsOut.ret.fieldset) :
          /\ f \in Range(fsIn.requested_fieldset)
          /\ f \notin DeclaredFields(fsIn.obj.rest_meta)
          /\ f \notin Range(fsIn.extended_fieldset)

\* C5: serializing an unbound model instance with nothing requested, extended or
\* excluded completes without error, reading only attributes RESTOptions defines,
\* and resolves exactly the model's direct_serialization_fields in direct
\* serialization and exactly its guest_fields otherwise.
C5_DirectSerializationFields ==
    ( /\ FsCalled /\ ~FsBound /\ ~fsOut.ret.short
      /\ fsIn.requested_fieldset = << >> /\ fsIn.extended_fieldset = << >>
      /\ fsIn.exclude_fields = << >> )
        => /\ fsOut.ret.err = "none"
           /\ Range(fsOut.ret.fieldset) =
                  IF fsIn.direct_serialization
                  THEN Range(fsIn.obj.rest_meta.direct_serialization_fields)
                  ELSE Range(fsIn.obj.rest_meta.guest_fields)

(***************************************************************************)
(* SpecGraph: ModelSerializer._to_python over a graph of related objects.  *)
(* Every object is bound to a resource that grants get permission and      *)
(* lists its primary key and all its relation fields as default fields.    *)
(***************************************************************************)

NumObjs  == 3
MaxEdges == 4

Objs == 1..NumObjs

\* The name of the relation field that points to object t
RelName(t) == <<"rel1", "rel2", "rel3", "rel4", "rel5">>[t]

TargetOf(f) == CHOOSE t \in Objs : RelName(t) = f

\* The fields the resource of object o lists: its key, then its relation fields
FieldsOf(graph, o) ==
    <<get_last_parent_pk_field_name>>
        \o SelectSeq([t \in Objs |-> RelName(t)], LAMBDA f : TargetOf(f) \in graph[o])

GraphObj(graph, o) ==
    [ db_table |-> "app_model", pk |-> o, rest_meta |-> RESTOptions(<< >>, << >>),
      resource |-> [ bound |-> TRUE, has_get_permission |-> TRUE,
                     has_post_permission |-> FALSE, has_put_permission |-> FALSE,
                     guest_fields |-> <<get_last_parent_pk_field_name>>,
                     fields |-> FieldsOf(graph, o),
                     default_detailed_fields |-> FieldsOf(graph, o),
                     default_general_fields |-> FieldsOf(graph, o) ] ]

\* Mutant: the object's name is not added to serialized_objects
to_python_without_marking(graph, o, detailed, serialized_objects) ==
    LET fs == _get_fieldset(GraphObj(graph, o), << >>, << >>, << >>, detailed, FALSE, serialized_objects)
    IN  [ obj |-> o, short |-> fs.short, fieldset |-> fs.fieldset, todo |-> fs.fieldset,
          serialized_objects |-> serialized_objects ]

\* ModelSerializer._to_python up to its call of _fields_to_python: the frame of the
\* call, holding its own copy of serialized_objects with the object's name added
_to_python(graph, o, detailed, serialized_objects) ==
    LET fs == _get_fieldset(GraphObj(graph, o), << >>, << >>, << >>, detailed, FALSE, serialized_objects)
    IN  [ obj |-> o, short |-> fs.short, fieldset |-> fs.fieldset, todo |-> fs.fieldset,
          serialized_objects |->
              serialized_objects \cup {_get_obj_serialization_name(GraphObj(graph, o))} ]

\* What the log keeps of a call: the object, how it was emitted, and the objects of
\* the calls it is nested in
Emission(frame, callers) ==
    [ obj |-> frame.obj, short |-> frame.short, fieldset |-> frame.fieldset,
      path |-> [i \in DOMAIN callers |-> callers[i].obj] ]

InitGraph ==
    /\ \E E \in SUBSET (Objs \X Objs) :
          /\ Cardinality(E) <= MaxEdges
          /\ rel = [o \in Objs |-> {t \in Objs : <<o, t>> \in E}]
    /\ stack = << >>
    /\ emitted = << >>
    /\ FsIdle /\ RegIdle /\ RvIdle /\ ConvIdle /\ ThrIdle /\ CallIdle

\* The top-level call: object 1 is serialized with no serialized_objects given
Serialize ==
    /\ stack = << >> /\ emitted = << >>
    /\ LET frame == _to_python(rel, 1, TRUE, {})
       IN  /\ stack' = <<frame>>
           /\ emitted' = <<Emission(frame, << >>)>>
    /\ UNCHANGED <<rel, fsVars, regVars, rvVars, convVars, thrVars, callVars>>

Top == stack[Len(stack)]

WithTop(frame) == [stack EXCEPT ![Len(stack)] = frame]

\* _fields_to_python on the primary-key field: a plain value, no recursion
ScalarField ==
    /\ stack # << >> /\ Top.todo # << >>
    /\ Head(Top.todo) = get_last_parent_pk_field_name
    /\ stack' = WithTop([Top EXCEPT !.todo = Tail(@)])
    /\ UNCHANGED <<rel, emitted, fsVars, regVars, rvVars, convVars, thrVars, callVars>>

\* _fields_to_python on a relation field: _model_field_to_python hands the related
\* object to ModelSerializer._to_python with the caller's serialized_objects
RelationField ==
    /\ stack # << >> /\ Top.todo # << >>
    /\ Head(Top.todo) # get_last_parent_pk_field_name
    /\ LET caller == [Top EXCEPT !.todo = Tail(@)]
           frame  == _to_python(rel, TargetOf(Head(Top.todo)), FALSE,
                                Top.serialized_objects)
       IN  /\ stack' = Append(WithTop(caller), frame)
           /\ emitted' = Append(emitted, Emission(frame, stack))
    /\ UNCHANGED <<rel, fsVars, regVars, rvVars, convVars, thrVars, callVars>>

\* _fields_to_python has gone through the fieldset: the call returns
Return ==
    /\ stack # << >> /\ Top.todo = << >>
    /\ stack' = SubSeq(stack, 1, Len(stack) - 1)
    /\ UNCHANGED <<rel, emitted, fsVars, regVars, rvVars, convVars, thrVars, callVars>>

NextGraph == Serialize \/ ScalarField \/ RelationField \/ Return

SpecGraph == InitGraph /\ [][NextGraph]_vars

GraphDone == stack = << >> /\ emitted # << >>

FullEmissions(o) == {i \in DOMAIN emitted : emitted[i].obj = o /\ ~emitted[i].short}

\* C1 (as stated): an instance serialized earlier in the top-level call is emitted
\* with only its primary key, so each instance's full field set is emitted at most
\* once per top-level call, in cycles and for shared descendants alike.
C1_FullAtMostOncePerCall ==
    /\ \A i \in DOMAIN emitted :
          (\E j \in 1..(i - 1) : emitted[j].obj = emitted[i].obj) => emitted[i].short
    /\ \A o \in Objs : Cardinality(FullEmissions(o)) <= 1

\* C1 (amended): an instance is emitted with only its primary-key field exactly
\* when one of the calls it is nested in (an ancestor on its recursion path)
\* serializes the same identity, and with its full field set otherwise; so each
\* instance's full field set is emitted at most once along every recursion path,
\* while a descendant shared by two branches is emitted in full once per branch.
C1_FullAtMostOncePerPath ==
    /\ \A i \in DOMAIN emitted :
          /\ emitted[i].short <=> emitted[i].obj \in Range(emitted[i].path)
          /\ emitted[i].short => emitted[i].fieldset = <<get_last_parent_pk_field_name>>
          /\ ~emitted[i].short => emitted[i].fieldset = FieldsOf(rel, emitted[i].obj)
    /\ \A i, j \in DOMAIN stack :
          (i < j /\ ~stack[i].short /\ ~stack[j].short) => stack[i].obj # stack[j].obj

\* C1 witness: a finished call in which a back-reference of a cycle was cut to the
\* primary key and a shared descendant was emitted in full on two branches.
C1_Witness ==
    /\ GraphDone
    /\ \E i \in DOMAIN emitted : emitted[i].short /\ Len(emitted[i].path) >= 2
    /\ \E o \in Objs : Cardinality(FullEmissions(o)) >= 2

(***************************************************************************)
(* SpecRegistry: serializer.py's value serializer registry and the         *)
(* dispatch of Serializer._to_python_chain over it                         *)
(***************************************************************************)

\* Serializer classes registered by application code, besides the module's own
NumCustom == 2

\* The classes serializer.py decorates with @register, in module order
ModuleSerializers ==
    <<"StringSerializer", "DateTimeSerializer", "DictSerializer", "ListSerializer",
      "QuerySetSerializer", "DecimalSerializer", "RawVerboseSerializer",
      "ModelSerializer">>

CustomName(i) == <<"CustomSerializer1", "CustomSerializer2", "CustomSerializer3", "CustomSerializer4">>[i]

CustomSerializers == {CustomName(i) : i \in 1..NumCustom}

SerializerClasses == Range(ModuleSerializers) \cup CustomSerializers

\* The runtime types of the things handed to the chain
ThingTypes ==
    {"str", "int", "datetime", "dict", "list", "tuple", "set", "QuerySet", "Decimal",
     "RawVerboseValue", "Model"}

\* klass()._can_transform_to_python(thing) for a thing of the given type; an
\* application's serializer is a subclass of ModelSerializer and accepts models
_can_transform_to_python(klass, type) ==
    CASE klass = "StringSerializer"     -> TRUE
      [] klass = "DateTimeSerializer"   -> type = "datetime"
      [] klass = "DictSerializer"       -> type = "dict"
      [] klass = "ListSerializer"       -> type \in {"list", "tuple", "set"}
      [] klass = "QuerySetSerializer"   -> type = "QuerySet"
      [] klass = "DecimalSerializer"    -> type = "Decimal"
      [] klass = "RawVerboseSerializer" -> type = "RawVerboseValue"
      [] OTHER                          -> type = "Model"

\* Mutant: the new instance put at the end of the list
register_at_the_end(serializers, klass) ==
    IF \E i \in DOMAIN serializers : serializers[i] = klass
    THEN [value_serializers |-> serializers, returned |-> "None"]
    ELSE [value_serializers |-> Append(serializers, klass), returned |-> klass]

\* register(klass): an entry is an instance, identified here by its exact class
register(serializers, klass) ==
    IF \E i \in DOMAIN serializers : serializers[i] = klass
    THEN [value_serializers |-> serializers, returned |-> "None"]
    ELSE [value_serializers |-> <<klass>> \o serializers, returned |-> klass]

\* Serializer._find_to_serializer: the first accepting entry, "None" without one
_find_to_serializer(serializers, type) ==
    LET accepting == {i \in DOMAIN serializers : _can_transform_to_python(serializers[i], type)}
    IN  IF accepting = {} THEN "None"
        ELSE serializers[CHOOSE i \in accepting : \A j \in accepting : i <= j]

\* What a resource's serializer may hand back: only a non-empty value is truthy
ResourceResults == {"mapping", "empty mapping", "empty list"}

Truthy(result) == result = "mapping"

\* Serializer._to_python_via_resource: None without a registered resource type,
\* else the thing gets its _resource and the resource's serializer produces the result
_to_python_via_resource(resource_registered, resource_result) ==
    IF resource_registered
    THEN [bound |-> TRUE, result |-> resource_result]
    ELSE [bound |-> FALSE, result |-> "None"]

\* Serializer._to_python_chain
_to_python_chain(serializers, type, has_request, has_resource, resource_registered, resource_result) ==
    LET tried == has_request /\ ~has_resource
        via   == _to_python_via_resource(resource_registered, resource_result)
        found == _find_to_serializer(serializers, type)
    IN  IF tried /\ Truthy(via.result)
        THEN [ by |-> "resource", result |-> via.result, registry_scanned |-> FALSE,
               resource_set |-> via.bound ]
        ELSE [ by |-> IF found # "None" THEN found ELSE "NotImplementedError",
               result |-> IF found # "None" THEN "registry result" ELSE "None",
               registry_scanned |-> TRUE,
               resource_set |-> tried /\ via.bound ]

InitRegistry ==
    /\ value_serializers = << >>
    /\ loaded = 0
    /\ registerLog = << >>
    /\ lastRegister = [idle |-> TRUE]
    /\ dispatched = [idle |-> TRUE]
    /\ FsIdle /\ GraphIdle /\ RvIdle /\ ConvIdle /\ ThrIdle /\ CallIdle

Registered(klass) ==
    LET r == register(value_serializers, klass)
    IN  /\ value_serializers' = r.value_serializers
        /\ lastRegister' = [ idle |-> FALSE, klass |-> klass, returned |-> r.returned,
                             before |-> value_serializers ]
        /\ registerLog' = IF klass \in Range(registerLog) THEN registerLog
                          ELSE Append(registerLog, klass)

\* Importing serializer.py runs its @register decorators in module order
ModuleRegister ==
    /\ loaded < Len(ModuleSerializers)
    /\ loaded' = loaded + 1
    /\ Registered(ModuleSerializers[loaded + 1])
    /\ UNCHANGED <<dispatched, fsVars, graphVars, rvVars, convVars, thrVars, callVars>>

\* Application code registers a class once the module is imported
Register ==
    /\ loaded = Len(ModuleSerializers)
    /\ \E klass \in SerializerClasses : Registered(klass)
    /\ UNCHANGED <<loaded, dispatched, fsVars, graphVars, rvVars, convVars, thrVars, callVars>>

\* What typemapper holds for a type: resource types are registered for models only
ResourceRegistrations(type) == IF type = "Model" THEN BOOLEAN ELSE {FALSE}

\* A _to_python_chain call on a thing of some type in some context
Dispatch ==
    /\ loaded = Len(ModuleSerializers)
    /\ \E type \in ThingTypes, has_request \in BOOLEAN, has_resource \in BOOLEAN :
         \E resource_registered \in ResourceRegistrations(type) :
          \E resource_result \in IF resource_registered THEN ResourceResults ELSE {"None"} :
            dispatched' =
              [ idle |-> FALSE, type |-> type, has_request |-> has_request,
                has_resource |-> has_resource,
                resource_registered |-> resource_registered,
                resource_result |-> resource_result,
                out |-> _to_python_chain(value_serializers, type, has_request,
                                         has_resource, resource_registered,
                                         resource_result) ]
    /\ UNCHANGED <<value_serializers, loaded, registerLog, lastRegister, fsVars,
                   graphVars, rvVars, convVars, thrVars, callVars>>

NextRegistry == ModuleRegister \/ Register \/ Dispatch

SpecRegistry == InitRegistry /\ [][NextRegistry]_vars

Reverse(seq) == [i \in DOMAIN seq |-> seq[Len(seq) + 1 - i]]

\* C6: (a) with a request among the arguments, a thing without _resource and a
\* resource type registered for its type, the result is the one the resource's
\* serializer produced, whatever it is, and the registry is not consulted;
\* (b) otherwise the first entry of the registry that accepts the thing produces
\* the result; (c) without an accepting entry the call fails with NotImplementedError.
C6_Dispatch ==
    ~dispatched.idle
        => IF /\ dispatched.has_request /\ ~dispatched.has_resource
              /\ dispatched.resource_registered
           THEN /\ dispatched.out.by = "resource"
                /\ dispatched.out.result = dispatched.resource_result
                /\ ~dispatched.out.registry_scanned
           ELSE IF \E i \in DOMAIN value_serializers :
                      _can_transform_to_python(value_serializers[i], dispatched.type)
           THEN \E i \in DOMAIN value_serializers :
                   /\ dispatched.out.by = value_serializers[i]
                   /\ _can_transform_to_python(value_serializers[i], dispatched.type)
                   /\ \A j \in 1..(i - 1) :
                         ~_can_transform_to_python(value_serializers[j], dispatched.type)
           ELSE dispatched.out.by = "NotImplementedError"

\* C7: the registry holds at most one instance per exact class, ordered with the
\* most recently first-registered class first; registering a registered class
\* changes nothing; and once serializer.py is imported the catch-all
\* StringSerializer is the last entry, behind every type-specific serializer.
C7_RegistryOrder ==
    /\ \A i, j \in DOMAIN value_serializers :
          value_serializers[i] = value_serializers[j] => i = j
    /\ value_serializers = Reverse(registerLog)
    /\ ~lastRegister.idle =>
          IF lastRegister.klass \in Range(lastRegister.before)
          THEN value_serializers = lastRegister.before /\ lastRegister.returned = "None"
          ELSE value_serializers = <<lastRegister.klass>> \o lastRegister.before
    /\ loaded = Len(ModuleSerializers) =>
          /\ value_serializers[Len(value_serializers)] = "StringSerializer"
          /\ \A k \in Range(ModuleSerializers) \ {"StringSerializer"} :
                \E i \in 1..(Len(value_serializers) - 1) : value_serializers[i] = k

\* C7 witness: after the import and two application classes, a class that is
\* already registered was registered again.
C7_Witness ==
    /\ loaded = Len(ModuleSerializers)
    /\ Len(value_serializers) = Len(ModuleSerializers) + 2
    /\ value_serializers[1] \in CustomSerializers
    /\ ~lastRegister.idle
    /\ lastRegister.klass \in Range(lastRegister.before)

(***************************************************************************)
(* SpecRawVerbose: RawVerboseValue.get_value                               *)
(***************************************************************************)

\* Integers 0..MaxInt and NumStrings distinct strings stand for the field values
MaxInt     == 2
NumStrings == 2

\* Python values: a type and a payload (the number, or which string it is)
PyValues ==
    [type : {"bool"}, v : {0, 1}] \cup [type : {"int"}, v : 0..MaxInt]
        \cup [type : {"str"}, v : 1..NumStrings] \cup [type : {"NoneType"}, v : {0}]

\* Python's ==: True == 1 and False == 0; otherwise values of different types differ
PyEq(a, b) ==
    IF a.type \in {"bool", "int"} /\ b.type \in {"bool", "int"} THEN a.v = b.v ELSE a = b

\* Serializer.SERIALIZATION_TYPES
SERIALIZATION_TYPES == {"VERBOSE", "RAW", "BOTH"}

\* A bare value, and the mapping {'_raw': raw, '_verbose': verbose}
Bare(value) == [mapping |-> FALSE, value |-> value, _raw |-> value, _verbose |-> value]
RawVerboseMapping(raw, verbose) ==
    [mapping |-> TRUE, value |-> raw, _raw |-> raw, _verbose |-> verbose]

\* Mutant: BOTH always yields the mapping
get_value_always_mapping(raw_value, verbose_value, serialization_format) ==
    IF serialization_format = "RAW" THEN Bare(raw_value)
    ELSE IF serialization_format = "VERBOSE" THEN Bare(verbose_value)
    ELSE RawVerboseMapping(raw_value, verbose_value)

\* RawVerboseValue.get_value
get_value(raw_value, verbose_value, serialization_format) ==
    IF serialization_format = "RAW" THEN Bare(raw_value)
    ELSE IF serialization_format = "VERBOSE" THEN Bare(verbose_value)
    ELSE IF PyEq(raw_value, verbose_value) THEN Bare(raw_value)
    ELSE RawVerboseMapping(raw_value, verbose_value)

InitRawVerbose ==
    /\ rvIn \in [ raw_value : PyValues, verbose_value : PyValues,
                   serialization_format : SERIALIZATION_TYPES ]
    /\ rvOut = [called |-> FALSE, value |-> Bare([type |-> "NoneType", v |-> 0])]
    /\ FsIdle /\ GraphIdle /\ RegIdle /\ ConvIdle /\ ThrIdle /\ CallIdle

\* RawVerboseSerializer._to_python asks the value for its form in the format
GetValue ==
    /\ ~rvOut.called
    /\ rvOut' = [ called |-> TRUE,
                  value |-> get_value(rvIn.raw_value, rvIn.verbose_value,
                                      rvIn.serialization_format) ]
    /\ UNCHANGED <<rvIn, fsVars, graphVars, regVars, convVars, thrVars, callVars>>

NextRawVerbose == GetValue

SpecRawVerbose == InitRawVerbose /\ [][NextRawVerbose]_vars

\* C8: get_value yields raw under RAW and verbose under VERBOSE; under BOTH it yields
\* the mapping {_raw: raw, _verbose: verbose} when raw != verbose and the bare raw
\* value when raw == verbose; hence when raw == verbose every mode yields a bare
\* value equal (in Python's ==) to raw.
C8_GetValue ==
    rvOut.called
        => /\ rvIn.serialization_format = "RAW" => rvOut.value = Bare(rvIn.raw_value)
           /\ rvIn.serialization_format = "VERBOSE"
                 => rvOut.value = Bare(rvIn.verbose_value)
           /\ (rvIn.serialization_format = "BOTH"
                   /\ ~PyEq(rvIn.raw_value, rvIn.verbose_value))
                 => /\ rvOut.value.mapping
                    /\ rvOut.value._raw = rvIn.raw_value
                    /\ rvOut.value._verbose = rvIn.verbose_value
           /\ (rvIn.serialization_format = "BOTH"
                   /\ PyEq(rvIn.raw_value, rvIn.verbose_value))
                 => rvOut.value = Bare(rvIn.raw_value)
           /\ PyEq(rvIn.raw_value, rvIn.verbose_value)
                 => ~rvOut.value.mapping /\ PyEq(rvOut.value.value, rvIn.raw_value)

\* C8 witness: BOTH asked of a value whose raw and verbose forms are equal without
\* being identical (1 and True), answered with the bare raw value.
C8_Witness ==
    /\ rvOut.called
    /\ rvIn.serialization_format = "BOTH"
    /\ PyEq(rvIn.raw_value, rvIn.verbose_value)
    /\ rvIn.raw_value # rvIn.verbose_value
    /\ rvOut.value = Bare(rvIn.raw_value)

(***************************************************************************)
(* converters/__init__.py: the converter registry                          *)
(*                                                                         *)
(* The registry is an OrderedDict from format name to converter instance;  *)
(* it is kept as the sequence of its items, an item being the format and   *)
(* the class of the instance.                                              *)
(***************************************************************************)

\* settings.CONVERTERS lists at most this many class paths
MaxConverters == 3

\* Converter classes a project may configure; the last two are an application's own:
\* a JSON converter declared with the format name of the stock one, and a second
\* JSON rendering under a format name of its own
ConverterClasses ==
    { [klass |-> "JSONConverter", format |-> "json", media_type |-> "application/json"],
      [klass |-> "XMLConverter", format |-> "xml", media_type |-> "text/xml"],
      [klass |-> "CSVConverter", format |-> "csv", media_type |-> "text/csv"],
      [klass |-> "AppJSONConverter", format |-> "json",
       media_type |-> "application/json"],
      [klass |-> "PrettyJSONConverter", format |-> "pretty",
       media_type |-> "application/json"] }

Configurations == UNION {[1..n -> ConverterClasses] : n \in 1..MaxConverters}

Keys(registry) == [i \in DOMAIN registry |-> registry[i].format]

\* Mutant: an item put at the end whether or not the key is there already
set_item_appended(registry, converter) == Append(registry, converter)

\* OrderedDict.__setitem__: a present key keeps its place and takes the new value
set_item(registry, converter) ==
    IF \E i \in DOMAIN registry : registry[i].format = converter.format
    THEN [i \in DOMAIN registry |->
             IF registry[i].format = converter.format THEN converter ELSE registry[i]]
    ELSE Append(registry, converter)

\* register_converters: one instance per configured class, in configured order
RECURSIVE register_converters(_, _)
register_converters(registry, config) ==
    IF config = << >> THEN registry
    ELSE register_converters(set_item(registry, Head(config)), Tail(config))

\* The "if not converters: register_converters()" every accessor starts with
ensure_registered(registry, config) ==
    IF registry = << >> THEN register_converters(registry, config) ELSE registry

\* get_default_converter_name, on the registry as it is after its first lines
default_converter_name(registry) ==
    IF registry = << >> THEN "IndexError" ELSE registry[1].format

\* get_converter, on the registry as it is after its first lines
lookup_converter(registry, result_format) ==
    IF \E i \in DOMAIN registry : registry[i].format = result_format
    THEN (CHOOSE i \in DOMAIN registry : registry[i].format = result_format)
    ELSE 0

get_converter(registry, result_format) ==
    IF lookup_converter(registry, result_format) # 0
    THEN registry[lookup_converter(registry, result_format)].klass
    ELSE "ValueError"

\* The media types get_converter_name_from_request offers to mimeparse.best_match
supported_mime_types(registry) == {registry[i].media_type : i \in DOMAIN registry}

\* What best_match may answer: one of the offered types, '' for no match, or a
\* ValueError on a header it cannot parse
BestMatchOutcomes(registry) == supported_mime_types(registry) \cup {"", "ValueError"}

\* converter_map: the last registered name of each media type
converter_map(registry, media_type) ==
    LET holders == {i \in DOMAIN registry : registry[i].media_type = media_type}
    IN  IF holders = {} THEN "None"
        ELSE registry[CHOOSE i \in holders : \A j \in holders : j <= i].format

\* get_converter_name_from_request after registration: lines 68-97
converter_name_from_request(registry, mimeparse, has_header, best_match) ==
    LET default_name == default_converter_name(registry)
        preferred0   == registry[lookup_converter(registry, default_name)].media_type
        preferred    == IF best_match = "ValueError" THEN preferred0 ELSE best_match
    IN  IF mimeparse /\ has_header
        THEN IF converter_map(registry, preferred) # "None"
             THEN converter_map(registry, preferred) ELSE default_name
        ELSE default_name

(***************************************************************************)
(* SpecConverters: the registry calls made one after the other             *)
(***************************************************************************)

\* register_converters is run at most this many times in a row
MaxRegisterRuns == 3

RequestedFormats == {"json", "xml", "csv", "bogus"}

InitConverters ==
    /\ CONVERTERS \in Configurations
    /\ converters = << >>
    /\ convCall = [idle |-> TRUE]
    /\ regRuns = 0
    /\ FsIdle /\ GraphIdle /\ RegIdle /\ RvIdle /\ ThrIdle /\ CallIdle

RunsAfter(registry) == IF registry = << >> THEN regRuns + 1 ELSE regRuns

\* register_converters() called directly
RegisterConverters ==
    /\ regRuns < MaxRegisterRuns
    /\ converters' = register_converters(converters, CONVERTERS)
    /\ regRuns' = regRuns + 1
    /\ convCall' = [idle |-> FALSE, op |-> "register_converters", result |-> "None"]
    /\ UNCHANGED <<CONVERTERS, fsVars, graphVars, regVars, rvVars, thrVars, callVars>>

\* get_default_converter_name()
GetDefaultConverterName ==
    /\ converters' = ensure_registered(converters, CONVERTERS)
    /\ regRuns' = RunsAfter(converters)
    /\ convCall' = [ idle |-> FALSE, op |-> "get_default_converter_name",
                     result |-> default_converter_name(converters') ]
    /\ UNCHANGED <<CONVERTERS, fsVars, graphVars, regVars, rvVars, thrVars, callVars>>

\* get_converter(result_format)
GetConverter ==
    /\ \E result_format \in RequestedFormats :
          /\ converters' = ensure_registered(converters, CONVERTERS)
          /\ convCall' = [ idle |-> FALSE, op |-> "get_converter",
                           result |-> get_converter(converters', result_format) ]
    /\ regRuns' = RunsAfter(converters)
    /\ UNCHANGED <<CONVERTERS, fsVars, graphVars, regVars, rvVars, thrVars, callVars>>

\* get_converter_name_from_request(request, input_serialization)
GetConverterNameFromRequest ==
    /\ converters' = ensure_registered(converters, CONVERTERS)
    /\ regRuns' = RunsAfter(converters)
    /\ \E mimeparse \in BOOLEAN, has_header \in BOOLEAN,
          best_match \in BestMatchOutcomes(converters') :
          convCall' = [ idle |-> FALSE, op |-> "get_converter_name_from_request",
                       mimeparse |-> mimeparse, has_header |-> has_header,
                       best_match |-> best_match,
                       result |-> converter_name_from_request(converters', mimeparse,
                                                              has_header, best_match) ]
    /\ UNCHANGED <<CONVERTERS, fsVars, graphVars, regVars, rvVars, thrVars, callVars>>

NextConverters ==
    \/ RegisterConverters
    \/ GetDefaultConverterName
    \/ GetConverter
    \/ GetConverterNameFromRequest

SpecConverters == InitConverters /\ [][NextConverters]_vars

\* The format names of a configuration, each once, in order of first appearance
ConfiguredFormats(config) == rfs([i \in DOMAIN config |-> config[i].format])

\* The class configured last for a format name
LastConfigured(config, format) ==
    config[CHOOSE i \in DOMAIN config :
               /\ config[i].format = format
               /\ \A j \in DOMAIN config : config[j].format = format => j <= i]

\* C9: however often register_converters has run over the configured list, the
\* registry holds exactly one entry per declared format name, in configuration
\* order, and get_default_converter_name() returns the first-configured format name.
C9_RegistryIdempotent ==
    /\ converters # << >> =>
          /\ Keys(converters) = ConfiguredFormats(CONVERTERS)
          /\ \A i \in DOMAIN converters :
                converters[i] = LastConfigured(CONVERTERS, converters[i].format)
    /\ converters = << >> => regRuns = 0
    /\ (~convCall.idle /\ convCall.op = "get_default_converter_name")
          => convCall.result = CONVERTERS[1].format

\* C9 witness: register_converters has run three times over a configuration that
\* declares one format name twice, and get_default_converter_name was then asked.
C9_Witness ==
    /\ regRuns = MaxRegisterRuns
    /\ Len(CONVERTERS) > Len(converters)
    /\ Len(converters) >= 2
    /\ ~convCall.idle /\ convCall.op = "get_default_converter_name"
    /\ convCall.result = CONVERTERS[1].format

\* The call recorded last is a content negotiation
Negotiated == ~convCall.idle /\ convCall.op = "get_converter_name_from_request"

\* The negotiation had nothing to match: no matcher, no header, a header that does
\* not parse, or no registered media type matching it
NegotiationFailed ==
    \/ ~convCall.mimeparse
    \/ ~convCall.has_header
    \/ convCall.best_match \in {"ValueError", ""}

\* C11: get_converter_name_from_request never raises and returns a registered format
\* name: the default (first-configured) one when the matcher is unavailable, the
\* header is absent or unparsable or matches no registered media type, and
\* otherwise the format whose media type is the best match.
C11_NegotiationFallsBackToDefault ==
    Negotiated
        => /\ convCall.result \in Range(Keys(converters))
           /\ NegotiationFailed => convCall.result = CONVERTERS[1].format
           /\ ~NegotiationFailed
                 => \E i \in DOMAIN converters :
                       /\ converters[i].format = convCall.result
                       /\ converters[i].media_type = convCall.best_match

(***************************************************************************)
(* SpecThreads: first-use calls of the registry from request threads       *)
(*                                                                         *)
(* The module takes no lock.  A thread may be preempted between any two    *)
(* statements, so the emptiness test, each insertion of                    *)
(* register_converters and the reads that follow are steps of their own.   *)
(***************************************************************************)

NumThreads == 2

\* settings.CONVERTERS of the threaded runs lists at most this many class paths
MaxThreadConverters == 2

Threads == 1..NumThreads

ThreadConfigurations == UNION {[1..n -> ConverterClasses] : n \in 1..MaxThreadConverters}

RegistryCalls ==
    [op : {"get_default_converter_name", "get_converter_name_from_request"},
     fmt : {"None"}, nested : {FALSE}, seen : {0}]
    \cup [op : {"get_converter"}, fmt : RequestedFormats, nested : {FALSE}, seen : {0}]

NoCall == [op |-> "None", fmt |-> "None", nested |-> FALSE, seen |-> 0]

InitThreads ==
    /\ CONVERTERS \in ThreadConfigurations
    /\ converters = << >>
    /\ convCall = [idle |-> TRUE]
    /\ regRuns = 0
    /\ tpc = [t \in Threads |-> "idle"]
    /\ tcall = [t \in Threads |-> NoCall]
    /\ tidx = [t \in Threads |-> 0]
    /\ tres = [t \in Threads |-> "None"]
    /\ lateWrites = 0
    /\ FsIdle /\ GraphIdle /\ RegIdle /\ RvIdle /\ CallIdle

\* A request thread enters one of the three accessors
Call(t) ==
    /\ tpc[t] = "idle"
    /\ \E call \in RegistryCalls : tcall' = [tcall EXCEPT ![t] = call]
    /\ tpc' = [tpc EXCEPT ![t] = "check"]
    /\ UNCHANGED <<tidx, tres, lateWrites, convVars, fsVars, graphVars, regVars, rvVars, callVars>>

\* "if not converters:" and, when it is empty, the entry of register_converters
Check(t) ==
    /\ tpc[t] = "check"
    /\ IF converters = << >>
       THEN /\ tpc' = [tpc EXCEPT ![t] = "register"]
            /\ tidx' = [tidx EXCEPT ![t] = 1]
            /\ regRuns' = regRuns + 1
       ELSE /\ tpc' = [tpc EXCEPT ![t] = "body"]
            /\ UNCHANGED <<tidx, regRuns>>
    /\ UNCHANGED <<tcall, tres, lateWrites, CONVERTERS, converters, convCall,
                   fsVars, graphVars, regVars, rvVars, callVars>>

\* Some run of register_converters has gone through the whole configuration
Populated == \E u \in Threads : tidx[u] = Len(CONVERTERS) + 1

\* One turn of the loop of register_converters: converters[format] = instance
RegisterStep(t) ==
    /\ tpc[t] = "register"
    /\ converters' = set_item(converters, CONVERTERS[tidx[t]])
    /\ lateWrites' = IF Populated THEN lateWrites + 1 ELSE lateWrites
    /\ tidx' = [tidx EXCEPT ![t] = @ + 1]
    /\ tpc' = [tpc EXCEPT ![t] = IF tidx[t] = Len(CONVERTERS) THEN "body" ELSE "register"]
    /\ UNCHANGED <<tcall, tres, CONVERTERS, convCall, regRuns,
                   fsVars, graphVars, regVars, rvVars, callVars>>

\* get_default_converter_name and get_converter after the test: the read and the return
Body(t) ==
    /\ tpc[t] = "body"
    /\ tcall[t].op # "get_converter_name_from_request"
    /\ tres' = [tres EXCEPT ![t] =
                   IF tcall[t].op = "get_converter"
                   THEN get_converter(converters, tcall[t].fmt)
                   ELSE default_converter_name(converters)]
    /\ tpc' = [tpc EXCEPT ![t] = "done"]
    /\ UNCHANGED <<tcall, tidx, lateWrites, convVars, fsVars, graphVars, regVars, rvVars, callVars>>

\* get_converter_name_from_request after its own test: the call of
\* get_default_converter_name(), which starts with the test again
NestedDefault(t) ==
    /\ tpc[t] = "body"
    /\ tcall[t].op = "get_converter_name_from_request"
    /\ ~tcall[t].nested
    /\ tcall' = [tcall EXCEPT ![t].nested = TRUE]
    /\ tpc' = [tpc EXCEPT ![t] = "check"]
    /\ UNCHANGED <<tidx, tres, lateWrites, convVars, fsVars, graphVars, regVars, rvVars, callVars>>

\* get_converter_name_from_request, default_converter_name in hand: either the
\* return of line 97 at once, or the start of the loop over converters.items()
StartItems(t) ==
    /\ tpc[t] = "body"
    /\ tcall[t].op = "get_converter_name_from_request"
    /\ tcall[t].nested
    /\ \E mimeparse \in BOOLEAN, has_header \in BOOLEAN :
          IF mimeparse /\ has_header
          THEN /\ tcall' = [tcall EXCEPT ![t].seen = Len(converters)]
               /\ tpc' = [tpc EXCEPT ![t] = "items"]
               /\ UNCHANGED tres
          ELSE /\ tres' = [tres EXCEPT ![t] = default_converter_name(converters)]
               /\ tpc' = [tpc EXCEPT ![t] = "done"]
               /\ UNCHANGED tcall
    /\ UNCHANGED <<tidx, lateWrites, convVars, fsVars, graphVars, regVars, rvVars, callVars>>

\* The end of the loop, best_match and the return; an OrderedDict that has grown
\* since the loop started makes its iterator raise RuntimeError
FinishItems(t) ==
    /\ tpc[t] = "items"
    /\ \E best_match \in BestMatchOutcomes(converters) :
          tres' = [tres EXCEPT ![t] =
                     IF Len(converters) # tcall[t].seen THEN "RuntimeError"
                     ELSE converter_name_from_request(converters, TRUE, TRUE, best_match)]
    /\ tpc' = [tpc EXCEPT ![t] = "done"]
    /\ UNCHANGED <<tcall, tidx, lateWrites, convVars, fsVars, graphVars, regVars, rvVars, callVars>>

NextThreads ==
    \E t \in Threads :
        \/ Call(t)
        \/ Check(t)
        \/ RegisterStep(t)
        \/ Body(t)
        \/ NestedDefault(t)
        \/ StartItems(t)
        \/ FinishItems(t)

SpecThreads == InitThreads /\ [][NextThreads]_vars

\* C10: under any interleaving of concurrent first-use calls the registry is
\* populated exactly once and never written again afterwards, and no caller sees
\* it partially populated: get_converter for a configured format name never
\* fails as unknown.
C10_RaceSafeFirstUse ==
    /\ regRuns <= 1
    /\ lateWrites = 0
    /\ \A t \in Threads :
          (/\ tpc[t] = "done"
           /\ tcall[t].op = "get_converter"
           /\ tcall[t].fmt \in Range(ConfiguredFormats(CONVERTERS)))
          => tres[t] # "ValueError"

(***************************************************************************)
(* SpecSerialize: the top-level serialize() of serializer.py               *)
(*                                                                         *)
(* serializer.py takes get_converter from pyston.converter, which answers  *)
(* a name with a converter class and a content type and an unknown name    *)
(* with ValueError; the lookup is the one of the converter registry above. *)
(***************************************************************************)

restVars == <<fsVars, graphVars, regVars, rvVars, convVars, thrVars>>

RestIdle == FsIdle /\ GraphIdle /\ RegIdle /\ RvIdle /\ ConvIdle /\ ThrIdle

\* What serialize() may be handed: a plain value, or a model instance, which
\* has no _resource outside of a request
DirectData ==
    {[model |-> FALSE]}
    \cup {[model |-> TRUE, obj |-> o] : o \in {f \in FsObjects : ~f.resource.bound}}

\* The registries serialize() may find: one per configuration of a single class
DirectRegistries == {register_converters(<< >>, <<c>>) : c \in ConverterClasses}

\* settings.PYSTON_DEFAULT_CONVERTER, "unset" when the project does not set it
DefaultConverterSettings == {"unset", "python", "xml"}

\* Serializer()._to_python(data, serialization_format, requested_fieldset=...,
\* detailed=True, direct_serialization=True): a model instance goes to
\* ModelSerializer, whose field-set resolution may raise
direct_to_python(data, requested_fieldset) ==
    IF data.model
    THEN _get_fieldset(data.obj, << >>, requested_fieldset, << >>, TRUE, TRUE, {}).err
    ELSE "none"

\* Mutant: the format argument is ignored and RAW is used
serialize_always_raw(data, requested_fieldset, serialization_format, converter_name, default_setting, registry) ==
    LET name == IF converter_name # "None" THEN converter_name
                ELSE IF default_setting # "unset" THEN default_setting ELSE "json"
        err  == direct_to_python(data, requested_fieldset)
        call == [ mode |-> "RAW", detailed |-> TRUE,
                  direct_serialization |-> TRUE, request |-> FALSE, name |-> name ]
    IN  IF err # "none"
        THEN call @@ [raised |-> err, returned |-> "None", looked_up |-> FALSE]
        ELSE IF name = "python"
        THEN call @@ [raised |-> "none", returned |-> "tree", looked_up |-> FALSE]
        ELSE IF get_converter(registry, name) = "ValueError"
        THEN call @@ [ raised |-> "UnsupportedMediaTypeException", returned |-> "None",
                       looked_up |-> TRUE ]
        ELSE call @@ [raised |-> "none", returned |-> "encoded", looked_up |-> TRUE]

\* serialize(data, requested_fieldset, serialization_format, converter_name, ...)
serialize(data, requested_fieldset, serialization_format, converter_name, default_setting, registry) ==
    LET name == IF converter_name # "None" THEN converter_name
                ELSE IF default_setting # "unset" THEN default_setting ELSE "json"
        err  == direct_to_python(data, requested_fieldset)
        call == [ mode |-> serialization_format, detailed |-> TRUE,
                  direct_serialization |-> TRUE, request |-> FALSE, name |-> name ]
    IN  IF err # "none"
        THEN call @@ [raised |-> err, returned |-> "None", looked_up |-> FALSE]
        ELSE IF name = "python"
        THEN call @@ [raised |-> "none", returned |-> "tree", looked_up |-> FALSE]
        ELSE IF get_converter(registry, name) = "ValueError"
        THEN call @@ [ raised |-> "UnsupportedMediaTypeException", returned |-> "None",
                       looked_up |-> TRUE ]
        ELSE call @@ [raised |-> "none", returned |-> "encoded", looked_up |-> TRUE]

InitSerialize ==
    /\ callIn \in [ data : DirectData, requested_fieldset : {<< >>, <<"id", "name">>},
                     serialization_format : SERIALIZATION_TYPES,
                     converter_name : {"None", "python", "json", "bogus"},
                     default_setting : DefaultConverterSettings,
                     registry : DirectRegistries ]
    /\ callOut = [idle |-> TRUE]
    /\ RestIdle

SerializeCall ==
    /\ callOut = [idle |-> TRUE]
    /\ callOut' = [idle |-> FALSE] @@
                  serialize(callIn.data, callIn.requested_fieldset,
                            callIn.serialization_format, callIn.converter_name,
                            callIn.default_setting, callIn.registry)
    /\ UNCHANGED <<callIn, restVars>>

NextSerialize == SerializeCall

SpecSerialize == InitSerialize /\ [][NextSerialize]_vars

Called == ~callOut.idle

\* The converter name is given, or comes from the setting, and is in the registry
NameRegistered == callOut.name \in Range(Keys(callIn.registry))

\* C12: serialize() serializes the data in RAW mode with detailed=True and
\* direct_serialization=True and without a request; with the converter name
\* 'python' the plain-data tree is returned and no converter is looked up; with a
\* converter name that is not registered the call fails with
\* UnsupportedMediaTypeException.
C12_SerializeEntryPoint ==
    Called
        => /\ callOut.mode = "RAW"
           /\ callOut.detailed /\ callOut.direct_serialization /\ ~callOut.request
           /\ callOut.name = "python"
                 => callOut.returned = "tree" /\ ~callOut.looked_up
           /\ (callOut.name # "python" /\ ~NameRegistered)
                 => callOut.raised = "UnsupportedMediaTypeException"

\* C12 as the code has it: the data is serialized in the format the caller gives
\* (RAW when none is given) with detailed=True and direct_serialization=True and
\* without a request; an error raised by that serialization leaves the call as it
\* is, before any converter is looked up; otherwise the name 'python' returns the
\* plain-data tree without a lookup and a name that is not registered fails with
\* UnsupportedMediaTypeException, never ValueError.
C12_SerializeInGivenFormat ==
    Called
        => /\ callOut.mode = callIn.serialization_format
           /\ callOut.detailed /\ callOut.direct_serialization /\ ~callOut.request
           /\ callOut.raised # "ValueError"
           /\ IF direct_to_python(callIn.data, callIn.requested_fieldset) # "none"
              THEN /\ callOut.raised = direct_to_python(callIn.data,
                                                        callIn.requested_fieldset)
                   /\ ~callOut.looked_up
              ELSE /\ callOut.name = "python"
                         => callOut.returned = "tree" /\ ~callOut.looked_up
                   /\ (callOut.name # "python" /\ ~NameRegistered)
                         => callOut.raised = "UnsupportedMediaTypeException"

\* C12 witness: a model instance serialized in VERBOSE format for a converter name
\* that is not registered, ending in UnsupportedMediaTypeException.
C12_Witness ==
    /\ Called
    /\ callIn.data.model
    /\ callIn.serialization_format = "VERBOSE"
    /\ callOut.mode = "VERBOSE"
    /\ callIn.converter_name = "bogus"
    /\ callOut.raised = "UnsupportedMediaTypeException"

(***************************************************************************)
(* SpecDeserialize: ResourceSerializer.deserialize                         *)
(***************************************************************************)

RequestMethods == {"GET", "POST", "PUT", "DELETE"}

RequestBodies == {"well-formed", "malformed"}

\* The registries a request may find: one per configuration of the threaded runs
RequestRegistries == {register_converters(<< >>, config) : config \in ThreadConfigurations}

\* converter().decode(body): JSONConverter and its subclasses parse with json.loads,
\* which raises ValueError; the other classes keep Converter._decode
decode(klass, body) ==
    IF klass \in {"JSONConverter", "AppJSONConverter", "PrettyJSONConverter"}
    THEN IF body = "well-formed" THEN "data" ELSE "ValueError"
    ELSE "NotImplementedError"

\* get_converter_from_request(request, True): the converter of the negotiated name
get_converter_from_request(registry, mimeparse, has_header, best_match) ==
    get_converter(registry,
                  converter_name_from_request(registry, mimeparse, has_header, best_match))

\* Mutant: an unimplemented direction reported as a malformed body
deserialize_all_malformed(method, registry, mimeparse, has_header, best_match, body) ==
    LET converter == get_converter_from_request(registry, mimeparse, has_header, best_match)
        decoded   == IF converter = "ValueError" THEN "ValueError"
                     ELSE decode(converter, body)
        call      == [coerced |-> method = "PUT", consulted |-> method \in {"POST", "PUT"}]
    IN  IF method \notin {"POST", "PUT"}
        THEN call @@ [raised |-> "none", data_set |-> FALSE, returned |-> TRUE]
        ELSE IF decoded \in {"TypeError", "ValueError", "NotImplementedError"}
        THEN call @@ [ raised |-> "MimerDataException", data_set |-> FALSE,
                       returned |-> FALSE ]
        ELSE call @@ [raised |-> "none", data_set |-> TRUE, returned |-> TRUE]

\* ResourceSerializer.deserialize(request)
deserialize(method, registry, mimeparse, has_header, best_match, body) ==
    LET converter == get_converter_from_request(registry, mimeparse, has_header, best_match)
        decoded   == IF converter = "ValueError" THEN "ValueError"
                     ELSE decode(converter, body)
        call      == [coerced |-> method = "PUT", consulted |-> method \in {"POST", "PUT"}]
    IN  IF method \notin {"POST", "PUT"}
        THEN call @@ [raised |-> "none", data_set |-> FALSE, returned |-> TRUE]
        ELSE IF decoded \in {"TypeError", "ValueError"}
        THEN call @@ [ raised |-> "MimerDataException", data_set |-> FALSE,
                       returned |-> FALSE ]
        ELSE IF decoded = "NotImplementedError"
        THEN call @@ [ raised |-> "UnsupportedMediaTypeException", data_set |-> FALSE,
                       returned |-> FALSE ]
        ELSE call @@ [raised |-> "none", data_set |-> TRUE, returned |-> TRUE]

InitDeserialize ==
    /\ \E registry \in RequestRegistries :
          callIn \in [ method : RequestMethods, registry : {registry},
                       mimeparse : BOOLEAN, has_header : BOOLEAN,
                       best_match : BestMatchOutcomes(registry), body : RequestBodies ]
    /\ callOut = [idle |-> TRUE]
    /\ RestIdle

DeserializeCall ==
    /\ callOut = [idle |-> TRUE]
    /\ callOut' = [idle |-> FALSE] @@
                  deserialize(callIn.method, callIn.registry, callIn.mimeparse,
                              callIn.has_header, callIn.best_match, callIn.body)
    /\ UNCHANGED <<callIn, restVars>>

NextDeserialize == DeserializeCall

SpecDeserialize == InitDeserialize /\ [][NextDeserialize]_vars

\* The converter content negotiation yields for the request, "ValueError" for none
Negotiation ==
    get_converter_from_request(callIn.registry, callIn.mimeparse, callIn.has_header,
                               callIn.best_match)

MaxConstructions == 2

\* Field tuples as a RESTMeta may write them: any names in any order
DeclaredLists == UNION {Orders(S) : S \in SUBSET FieldNames}

\* RESTMeta declarations: fields, with or without extra_fields, and with or
\* without detailed, general and default fields narrowed to the primary key
OptionDecls ==
    { [fields |-> f]
         @@ (IF e = <<"unset">> THEN << >> ELSE [extra_fields |-> e])
         @@ (IF narrowed
             THEN [ detailed_fields |-> <<"id">>, general_fields |-> <<"id">>,
                    default_fields |-> <<"id">> ]
             ELSE << >>) :
      f \in DeclaredLists, e \in {<<"unset">>, <<"email">>, <<"name", "id", "name">>},
      narrowed \in BOOLEAN }

InitOptions ==
    /\ callIn \in [decl : OptionDecls]
    /\ callOut = [idle |-> TRUE]
    /\ RestIdle

\* RESTOptions(model): the set handed to merge_iterable is iterated in some order
Construct ==
    /\ \E setOrder \in Orders(UndistributedFields(callIn.decl)) :
          LET options == RESTOptions(callIn.decl, setOrder)
          IN  IF callOut = [idle |-> TRUE]
              THEN callOut' = [idle |-> FALSE, count |-> 1, first |-> options,
                               last |-> options]
              ELSE /\ callOut.count < MaxConstructions
                   /\ callOut' = [callOut EXCEPT !.count = @ + 1, !.last = options]
    /\ UNCHANGED <<callIn, restVars>>

NextOptions == Construct

SpecOptions == InitOptions /\ [][NextOptions]_vars

\* The declared fields that are in none of detailed, general and default fields,
\* each once, in the order of their first occurrence in the declared field list
UndistributedInDeclaredOrder(decl) ==
    rfs(SelectSeq(getattr_or(decl, "fields", << >>),
                  LAMBDA f : f \in UndistributedFields(decl)))

\* C14: extra_fields is duplicate-free, lists the declared extra fields first in
\* their declared order and then the declared fields absent from detailed, general
\* and default fields in the order of their first occurrence in the declared field
\* list, and is the same on every construction for the same declarations.
C14_ExtraFields ==
    Called
        => /\ \A i, j \in DOMAIN callOut.last.extra_fields :
                 callOut.last.extra_fields[i] = callOut.last.extra_fields[j] => i = j
           /\ callOut.last.extra_fields =
                 rfs(getattr_or(callIn.decl, "extra_fields", << >>)
                         \o UndistributedInDeclaredOrder(callIn.decl))
           /\ callOut.last.extra_fields = callOut.first.extra_fields

(***************************************************************************)
(* converters/__init__.py: GeneratorConverter                              *)
(*                                                                         *)
(* A plain-data value is a record: a leaf holds a Python value, a list its *)
(* items, a mapping its entries in iteration order.  A text is the         *)
(* sequence of the pieces it is put together from.                         *)
(***************************************************************************)

\* Lists and mappings of the values under study hold at most this many items
MaxItems == 2

Leaf(py) == [kind |-> "leaf", py |-> py]
List(items) == [kind |-> "list", items |-> items]
Mapping(items) == [kind |-> "dict", items |-> items]

PyStr(name) == [type |-> "str", v |-> name]
PyInt(n) == [type |-> "int", v |-> n]
PyBool(b) == [type |-> "bool", v |-> b]

\* force_text(value) for the leaves
force_text(py) ==
    CASE py.type = "str"  -> py.v
      [] py.type = "int"  -> IF py.v = 0 THEN "0" ELSE "1"
      [] py.type = "bool" -> IF py.v THEN "True" ELSE "False"
      [] py.type = "LazySerializedData" -> "<LazySerializedData object>"
      [] OTHER            -> "None"

\* The sequences of at most MaxItems elements of S
ItemsOf(S) == UNION {[1..n -> S] : n \in 0..MaxItems}

\* The mappings with values in S: keys "k" and "j", in one of the orders
EntriesOf(S) ==
    {<< >>}
    \cup {<<[key |-> k, val |-> v]>> : k \in {"k", "j"}, v \in S}
    \cup {<<[key |-> "k", val |-> v], [key |-> "j", val |-> w]>> : v \in S, w \in S}

RenderLeaves == {Leaf(PyStr("a")), Leaf(PyInt(0))}

\* Leaves, and lists and mappings of leaves
FlatValues ==
    RenderLeaves \cup {List(i) : i \in ItemsOf(RenderLeaves)}
                 \cup {Mapping(e) : e \in EntriesOf(RenderLeaves)}

\* The same with one more level of nesting
NestedValues ==
    FlatValues \cup {List(i) : i \in ItemsOf(FlatValues)}
               \cup {Mapping(e) : e \in EntriesOf(FlatValues)}

\* separator.join(texts)
RECURSIVE Join(_, _)
Join(texts, separator) ==
    IF texts = << >> THEN << >>
    ELSE IF Len(texts) = 1 THEN texts[1]
    ELSE texts[1] \o <<separator>> \o Join(Tail(texts), separator)

\* Mutant: the elements of a list are rendered as the list itself is
RECURSIVE render_value_first_kept(_, _)
render_value_first_kept(value, first) ==
    IF value.kind = "dict"
    THEN <<"(">> \o Join([i \in DOMAIN value.items |->
                             <<value.items[i].key, ": ">>
                                 \o render_value_first_kept(value.items[i].val, FALSE)],
                         ", ") \o <<")">>
    ELSE IF value.kind = "list"
    THEN IF first
         THEN Join([i \in DOMAIN value.items |->
                       render_value_first_kept(value.items[i], first)], "\n")
         ELSE <<"(">> \o Join([i \in DOMAIN value.items |->
                                  render_value_first_kept(value.items[i], first)],
                              ", ") \o <<")">>
    ELSE <<force_text(value.py)>>

\* GeneratorConverter.render_value(value, first=True)
RECURSIVE render_value(_, _)
render_value(value, first) ==
    IF value.kind = "dict"
    THEN <<"(">> \o Join([i \in DOMAIN value.items |->
                             <<value.items[i].key, ": ">>
                                 \o render_value(value.items[i].val, FALSE)],
                         ", ") \o <<")">>
    ELSE IF value.kind = "list"
    THEN IF first
         THEN Join([i \in DOMAIN value.items |-> render_value(value.items[i], FALSE)],
                   "\n")
         ELSE <<"(">> \o Join([i \in DOMAIN value.items |->
                                  render_value(value.items[i], FALSE)], ", ")
                    \o <<")">>
    ELSE <<force_text(value.py)>>

(***************************************************************************)
(* SpecRender: render_value on every value of two levels                   *)
(***************************************************************************)

InitRender ==
    /\ callIn \in [value : NestedValues]
    /\ callOut = [idle |-> TRUE]
    /\ RestIdle

\* _get_value_from_row hands the cell value to render_value, first left at True
RenderValue ==
    /\ callOut = [idle |-> TRUE]
    /\ callOut' = [idle |-> FALSE, text |-> render_value(callIn.value, TRUE)]
    /\ UNCHANGED <<callIn, restVars>>

NextRender == RenderValue

SpecRender == InitRender /\ [][NextRender]_vars

\* The text of a value that is inside another value, as the claim words it:
\* '(a, b)' for a list, '(key: value, key: value)' for a mapping, else the text form
RECURSIVE NestedText(_)
NestedText(value) ==
    CASE value.kind = "list" ->
            <<"(">> \o Join([i \in DOMAIN value.items |-> NestedText(value.items[i])],
                            ", ") \o <<")">>
      [] value.kind = "dict" ->
            <<"(">> \o Join([i \in DOMAIN value.items |->
                                <<value.items[i].key, ": ">>
                                    \o NestedText(value.items[i].val)], ", ")
                   \o <<")">>
      [] OTHER -> <<force_text(value.py)>>

\* C15: a top-level list renders as its rendered elements joined by newline, a
\* list inside another value as '(a, b)', a mapping at any level as
\* '(key: value, key: value)' with its values rendered as nested, and any other
\* value as its text form.
C15_RenderValue ==
    Called
        => callOut.text =
              IF callIn.value.kind = "list"
              THEN Join([i \in DOMAIN callIn.value.items |->
                            NestedText(callIn.value.items[i])], "\n")
              ELSE NestedText(callIn.value)

\* C15 witness: a top-level list of a list and a mapping, rendered on two lines.
C15_Witness ==
    /\ Called
    /\ callIn.value = List(<<List(<<Leaf(PyStr("a")), Leaf(PyInt(0))>>),
                             Mapping(<<[key |-> "k", val |-> Leaf(PyInt(0))]>>)>>)
    /\ callOut.text = <<"(", "a", ", ", "0", ")", "\n", "(", "k", ": ", "0", ")">>

(***************************************************************************)
(* SpecCell: the cell of a tabular output, GeneratorConverter's            *)
(* _get_value_from_row                                                     *)
(***************************************************************************)

\* A flattened field's key path has at most this many keys
MaxPath == 2

\* A LazySerializedData wrapper around a value: an object of its own, which
\* serialize() turns into the value
Lazy(value) ==
    [kind |-> "lazy", serialize |-> value, py |-> [type |-> "LazySerializedData", v |-> 0]]

CellLeaves == {Leaf(PyStr("a")), Leaf(PyInt(0)), Leaf(PyBool(FALSE))}

\* What a row may hold under a key: leaves, lists and mappings of leaves, and
\* lists of one-key mappings
CellValues ==
    CellLeaves \cup {List(i) : i \in ItemsOf(CellLeaves)}
               \cup {Mapping(e) : e \in EntriesOf(CellLeaves)}
               \cup {List(i) : i \in ItemsOf({Mapping(<< >>),
                                               Mapping(<<[key |-> "j", val |-> Leaf(PyStr("a"))]>>),
                                               Mapping(<<[key |-> "j", val |-> Leaf(PyInt(0))]>>)})}

\* Rows: a mapping with the key "k", the value or the row possibly lazy
Rows ==
    LET plain == {Mapping(<<[key |-> "k", val |-> v]>>) :
                     v \in CellValues \cup {Lazy(w) : w \in CellValues}}
    IN  plain \cup {Lazy(r) : r \in plain}

KeyPaths == UNION {[1..n -> {"k", "j"}] : n \in 0..MaxPath}

\* dict.get(key, ''): the value of the first entry with the key
dict_get(entries, key) ==
    IF \E i \in DOMAIN entries : entries[i].key = key
    THEN entries[CHOOSE i \in DOMAIN entries : entries[i].key = key].val
    ELSE Leaf(PyStr(""))

\* GeneratorConverter._get_recursive_value_from_row(data, key_path)
RECURSIVE _get_recursive_value_from_row(_, _)
_get_recursive_value_from_row(data, key_path) ==
    IF data.kind = "lazy"
    THEN _get_recursive_value_from_row(data.serialize, key_path)
    ELSE IF key_path = << >> THEN data
    ELSE IF data.kind = "dict"
    THEN _get_recursive_value_from_row(dict_get(data.items, Head(key_path)),
                                       Tail(key_path))
    ELSE IF data.kind = "list"
    THEN List([i \in DOMAIN data.items |->
                  _get_recursive_value_from_row(data.items[i], key_path)])
    ELSE Leaf(PyStr(""))

\* bool(value) for a plain-data value
truth(value) ==
    CASE value.kind \in {"list", "dict"} -> value.items # << >>
      [] value.kind = "lazy"             -> TRUE
      [] value.py.type = "str"           -> value.py.v # ""
      [] value.py.type = "int"           -> value.py.v # 0
      [] value.py.type = "bool"          -> value.py.v
      [] OTHER                           -> FALSE

\* GeneratorConverter._get_value_from_row(data, field), key_path = field.key_path
_get_value_from_row(data, key_path) ==
    LET found == _get_recursive_value_from_row(data, key_path)
    IN  render_value(IF truth(found) THEN found ELSE Leaf(PyStr("")), TRUE)

InitCell ==
    /\ callIn \in [row : Rows, key_path : KeyPaths]
    /\ callOut = [idle |-> TRUE]
    /\ RestIdle

\* _render_row computes the cell of one field of one row
RenderCell ==
    /\ callOut = [idle |-> TRUE]
    /\ callOut' = [idle |-> FALSE, text |-> _get_value_from_row(callIn.row,
                                                               callIn.key_path)]
    /\ UNCHANGED <<callIn, restVars>>

NextCell == RenderCell

SpecCell == InitCell /\ [][NextCell]_vars

\* The value a key path leads to when it only descends mappings by keys they
\* have, forcing lazy wrappers; of kind "none" when it does not
RECURSIVE ValueAt(_, _)
ValueAt(data, key_path) ==
    IF data.kind = "lazy" THEN ValueAt(data.serialize, key_path)
    ELSE IF key_path = << >> THEN data
    ELSE IF data.kind = "dict" /\ \E i \in DOMAIN data.items :
                                     data.items[i].key = Head(key_path)
    THEN ValueAt(dict_get(data.items, Head(key_path)), Tail(key_path))
    ELSE [kind |-> "none"]

\* Somewhere along the path, broadcast over lists, a key is looked up that is not there
RECURSIVE KeyMissing(_, _)
KeyMissing(data, key_path) ==
    IF data.kind = "lazy" THEN KeyMissing(data.serialize, key_path)
    ELSE IF key_path = << >> THEN FALSE
    ELSE IF data.kind = "dict"
    THEN IF \E i \in DOMAIN data.items : data.items[i].key = Head(key_path)
         THEN KeyMissing(dict_get(data.items, Head(key_path)), Tail(key_path))
         ELSE TRUE
    ELSE IF data.kind = "list"
    THEN \E i \in DOMAIN data.items : KeyMissing(data.items[i], key_path)
    ELSE TRUE

IsEmptyText(text) == \A i \in DOMAIN text : text[i] = ""

\* C16: when the key path ends at a non-container leaf v the cell is the text form
\* of v, for every v (0 and False included), and the cell is the empty string only
\* where a key is missing.
C16_CellIsTextOfLeaf ==
    Called
        => LET at == ValueAt(callIn.row, callIn.key_path)
           IN  /\ at.kind = "leaf" => callOut.text = <<force_text(at.py)>>
               /\ IsEmptyText(callOut.text) => KeyMissing(callIn.row, callIn.key_path)

(***************************************************************************)
(* SpecXml: XMLConverter._encode                                           *)
(*                                                                         *)
(* The document is the sequence of the events given to the XML generator   *)
(* between startDocument and endDocument.                                  *)
(***************************************************************************)

None == Leaf([type |-> "NoneType", v |-> 0])

startElement(name) == [event |-> "start", name |-> name]
endElement(name) == [event |-> "end", name |-> name]
characters(text) == [event |-> "characters", name |-> text]

\* The concatenation of a sequence of sequences
RECURSIVE Concat(_)
Concat(seqs) == IF seqs = << >> THEN << >> ELSE Head(seqs) \o Concat(Tail(seqs))

\* Mutant: a list item's element is closed before the item is written
RECURSIVE to_xml_items_outside(_)
to_xml_items_outside(data) ==
    IF data.kind = "lazy" THEN to_xml_items_outside(data.serialize)
    ELSE IF data.kind = "list"
    THEN Concat([i \in DOMAIN data.items |->
                    <<startElement("resource"), endElement("resource")>>
                        \o to_xml_items_outside(data.items[i])])
    ELSE IF data.kind = "dict"
    THEN Concat([i \in DOMAIN data.items |->
                    <<startElement(data.items[i].key)>>
                        \o to_xml_items_outside(data.items[i].val)
                        \o <<endElement(data.items[i].key)>>])
    ELSE <<characters(force_text(data.py))>>

\* XMLConverter._to_xml(xml, data): the events it gives to xml
RECURSIVE _to_xml(_)
_to_xml(data) ==
    IF data.kind = "lazy" THEN _to_xml(data.serialize)
    ELSE IF data.kind = "list"
    THEN Concat([i \in DOMAIN data.items |->
                    <<startElement("resource")>> \o _to_xml(data.items[i])
                        \o <<endElement("resource")>>])
    ELSE IF data.kind = "dict"
    THEN Concat([i \in DOMAIN data.items |->
                    <<startElement(data.items[i].key)>> \o _to_xml(data.items[i].val)
                        \o <<endElement(data.items[i].key)>>])
    ELSE <<characters(force_text(data.py))>>

\* XMLConverter._encode(data): no document at all for None
_encode(data) ==
    IF data # None
    THEN [ document |-> TRUE,
           events |-> <<startElement("response")>> \o _to_xml(data)
                          \o <<endElement("response")>> ]
    ELSE [document |-> FALSE, events |-> << >>]

\* Plain-data trees of two levels, lazy wrappers at the top, inside a list and
\* inside a mapping, and None
XmlData ==
    NestedValues \cup {Lazy(v) : v \in FlatValues}
                 \cup {List(<<Lazy(v)>>) : v \in FlatValues}
                 \cup {Mapping(<<[key |-> "k", val |-> Lazy(v)]>>) : v \in FlatValues}
                 \cup {None}

InitXml ==
    /\ callIn \in [data : XmlData]
    /\ callOut = [idle |-> TRUE]
    /\ RestIdle

\* Converter._encode_to_stream writes what _encode returns
EncodeXml ==
    /\ callOut = [idle |-> TRUE]
    /\ callOut' = [idle |-> FALSE] @@ _encode(callIn.data)
    /\ UNCHANGED <<callIn, restVars>>

NextXml == EncodeXml

SpecXml == InitXml /\ [][NextXml]_vars

\* The elements still open after the events, innermost first; <<"unbalanced">>
\* once an end event does not close the innermost open element
RECURSIVE OpenAfter(_, _)
OpenAfter(events, open) ==
    IF events = << >> THEN open
    ELSE IF Head(events).event = "start"
    THEN OpenAfter(Tail(events), <<Head(events).name>> \o open)
    ELSE IF Head(events).event = "end"
    THEN IF open # << >> /\ Head(open) = Head(events).name
         THEN OpenAfter(Tail(events), Tail(open))
         ELSE <<"unbalanced">>
    ELSE OpenAfter(Tail(events), open)

\* The element content the claim gives a value: a node is a text or an element
\* with its content
RECURSIVE Content(_)
Content(data) ==
    CASE data.kind = "lazy" -> Content(data.serialize)
      [] data.kind = "list" ->
            [i \in DOMAIN data.items |->
                [element |-> "resource", content |-> Content(data.items[i])]]
      [] data.kind = "dict" ->
            [i \in DOMAIN data.items |->
                [element |-> data.items[i].key, content |-> Content(data.items[i].val)]]
      [] OTHER -> <<[text |-> force_text(data.py)]>>

\* The events of a content, every element opened before and closed after its own
RECURSIVE EventsOf(_)
EventsOf(content) ==
    Concat([i \in DOMAIN content |->
               IF "text" \in DOMAIN content[i]
               THEN <<characters(content[i].text)>>
               ELSE <<startElement(content[i].element)>>
                        \o EventsOf(content[i].content)
                        \o <<endElement(content[i].element)>>])

\* C17: for a non-null tree _encode emits a well-nested element sequence: one root
\* 'response' element opened first and closed last, one 'resource' element per
\* item of every sequence, one element named after the key per mapping entry in
\* key order, leaves as character data, and every start event matched by its end
\* event in last-opened-first-closed order.
C17_XmlWellNested ==
    (Called /\ callIn.data # None)
        => /\ callOut.document
           /\ Head(callOut.events) = startElement("response")
           /\ callOut.events[Len(callOut.events)] = endElement("response")
           /\ OpenAfter(callOut.events, << >>) = << >>
           /\ \A n \in 1..(Len(callOut.events) - 1) :
                 OpenAfter(SubSeq(callOut.events, 1, n), << >>) \notin {<< >>, <<"unbalanced">>}
           /\ callOut.events =
                 EventsOf(<<[element |-> "response", content |-> Content(callIn.data)]>>)

\* C17 witness: {k: {j: 'a'}} yields response > k > j > 'a'.
C17_Witness ==
    /\ Called
    /\ callIn.data = Mapping(<<[key |-> "k",
                                val |-> Mapping(<<[key |-> "j", val |-> Leaf(PyStr("a"))]>>)]>>)
    /\ callOut.events = << startElement("response"), startElement("k"), startElement("j"),
                           characters("a"), endElement("j"), endElement("k"),
                           endElement("response") >>

(***************************************************************************)
(* SpecHtml: HTMLConverter.encode_to_stream, statement by statement        *)
(***************************************************************************)

\* The status codes the response may carry when the converter is called
StatusCodes == {200, 201, 204, 404}

InitHtml ==
    /\ callIn \in [ resource : BOOLEAN,         \* a resource is among the arguments
                     os_is_class : BOOLEAN,      \* os is HttpResponseBase itself
                     status_code : StatusCodes,  \* response.status_code before the call
                     encodable : BOOLEAN,        \* the JSON converter can encode the data
                     renderable : BOOLEAN ]      \* the template is found and renders
    /\ callOut = [idle |-> TRUE]
    /\ RestIdle

Failed(exception) == [callOut EXCEPT !.pc = "failed", !.raised = exception]

\* encode_to_stream: the assertion on os, then the output stream wrapper
EncodeToStream ==
    /\ callOut = [idle |-> TRUE]
    /\ callOut' =
          LET entered == [ idle |-> FALSE, pc |-> "_encode", raised |-> "none",
                           written |-> FALSE, status_code |-> callIn.status_code ]
          IN  IF callIn.os_is_class
              THEN [entered EXCEPT !.pc = "failed", !.raised = "AssertionError"]
              ELSE entered
    /\ UNCHANGED <<callIn, restVars>>

\* _encode: the assertion on resource, then headers and the object of the request
AssertResource ==
    /\ Called /\ callOut.pc = "_encode"
    /\ callOut' = IF callIn.resource THEN [callOut EXCEPT !.pc = "convert"]
                  ELSE Failed("AssertionError")
    /\ UNCHANGED <<callIn, restVars>>

\* _encode: the data encoded by the JSON converter into a stream of its own
ConvertData ==
    /\ Called /\ callOut.pc = "convert"
    /\ callOut' = IF callIn.encodable THEN [callOut EXCEPT !.pc = "status"]
                  ELSE Failed("TypeError")
    /\ UNCHANGED <<callIn, restVars>>

\* Mutant: the status code is left as it is
SetStatusKept ==
    /\ Called /\ callOut.pc = "status"
    /\ callOut' = [callOut EXCEPT !.pc = "render"]
    /\ UNCHANGED <<callIn, restVars>>

\* _encode: response.status_code = 200
SetStatus ==
    /\ Called /\ callOut.pc = "status"
    /\ callOut' = [callOut EXCEPT !.pc = "render", !.status_code = 200]
    /\ UNCHANGED <<callIn, restVars>>

\* _encode: get_template(...).render(...)
RenderTemplate ==
    /\ Called /\ callOut.pc = "render"
    /\ callOut' = IF callIn.renderable THEN [callOut EXCEPT !.pc = "write"]
                  ELSE Failed("TemplateDoesNotExist")
    /\ UNCHANGED <<callIn, restVars>>

\* encode_to_stream: the page written to the output stream
WritePage ==
    /\ Called /\ callOut.pc = "write"
    /\ callOut' = [callOut EXCEPT !.pc = "done", !.written = TRUE]
    /\ UNCHANGED <<callIn, restVars>>

NextHtml ==
    \/ EncodeToStream
    \/ AssertResource
    \/ ConvertData
    \/ SetStatus
    \/ RenderTemplate
    \/ WritePage

SpecHtml == InitHtml /\ [][NextHtml]_vars

\* C18: without a bound resource the call fails with an assertion error, nothing
\* written to the output and the status code unchanged; a call that completes
\* leaves the status code at 200 whatever it was before.
C18_HtmlPreconditions ==
    Called
        => /\ ~callIn.resource
                 => /\ callOut.pc \in {"_encode", "failed"}
                    /\ callOut.pc = "failed" => callOut.raised = "AssertionError"
                    /\ ~callOut.written
                    /\ callOut.status_code = callIn.status_code
           /\ callOut.pc = "done"
                 => /\ callOut.status_code = 200
                    /\ callOut.written
                    /\ callOut.raised = "none"

\* C18 witness: a call on a response of status 204 has completed, the status is 200.
C18_Witness ==
    /\ Called
    /\ callIn.status_code = 204
    /\ callOut.pc = "done"
    /\ callOut.status_code = 200

\* C18, second witness: a call without resource has failed on the assertion.
C18_FailedWithoutResource ==
    /\ Called
    /\ ~callIn.resource /\ ~callIn.os_is_class
    /\ callOut.pc = "failed"
    /\ callOut.raised = "AssertionError"

(***************************************************************************)
(* SpecNormalize: utils/helpers.py, serialized_data_to_python              *)
(***************************************************************************)

Tuple(items) == [kind |-> "tuple", items |-> items]
Generator(items) == [kind |-> "generator", items |-> items]
SetOf(items) == [kind |-> "set", items |-> items]

\* What a container may hold at the innermost level: leaves and lazy leaves
LazyAtoms == RenderLeaves \cup {Lazy(v) : v \in RenderLeaves}

\* The atoms and every kind of container of them
LazyFlat ==
    LazyAtoms
        \cup {List(i) : i \in ItemsOf(LazyAtoms)} \cup {Tuple(i) : i \in ItemsOf(LazyAtoms)}
        \cup {Generator(i) : i \in ItemsOf(LazyAtoms)}
        \cup {SetOf(i) : i \in ItemsOf(LazyAtoms)}
        \cup {Mapping(e) : e \in EntriesOf(LazyAtoms)}

\* The same, and every kind of container and a lazy wrapper around one of them
LazyTrees ==
    LazyFlat
        \cup {List(<<v>>) : v \in LazyFlat} \cup {Tuple(<<v>>) : v \in LazyFlat}
        \cup {Generator(<<v>>) : v \in LazyFlat} \cup {SetOf(<<v>>) : v \in LazyFlat}
        \cup {Mapping(<<[key |-> "k", val |-> v]>>) : v \in LazyFlat}
        \cup {Lazy(v) : v \in LazyFlat}

\* serialized_data_to_python(data)
RECURSIVE serialized_data_to_python(_)
serialized_data_to_python(data) ==
    IF data.kind \in {"generator", "list", "tuple"}
    THEN List([i \in DOMAIN data.items |-> serialized_data_to_python(data.items[i])])
    ELSE IF data.kind = "lazy" THEN serialized_data_to_python(data.serialize)
    ELSE IF data.kind = "dict"
    THEN Mapping([i \in DOMAIN data.items |->
                     [ key |-> data.items[i].key,
                       val |-> serialized_data_to_python(data.items[i].val) ]])
    ELSE data

InitNormalize ==
    /\ callIn \in [data : LazyTrees]
    /\ callOut = [idle |-> TRUE]
    /\ RestIdle

\* HTMLConverter._encode normalizes the data before it converts the links in it
Normalize ==
    /\ callOut = [idle |-> TRUE]
    /\ callOut' = [ idle |-> FALSE, tree |-> serialized_data_to_python(callIn.data),
                    again |-> serialized_data_to_python(
                                  serialized_data_to_python(callIn.data)) ]
    /\ UNCHANGED <<callIn, restVars>>

NextNormalize == Normalize

SpecNormalize == InitNormalize /\ [][NextNormalize]_vars

\* No generator and no lazy wrapper in the value, whatever container holds it
RECURSIVE NoLaziness(_)
NoLaziness(value) ==
    CASE value.kind \in {"lazy", "generator"} -> FALSE
      [] value.kind \in {"list", "tuple", "set"} ->
            \A i \in DOMAIN value.items : NoLaziness(value.items[i])
      [] value.kind = "dict" ->
            \A i \in DOMAIN value.items : NoLaziness(value.items[i].val)
      [] OTHER -> TRUE

\* The kinds of sequence have become lists and the mappings have kept their keys
RECURSIVE SameShape(_, _)
SameShape(data, tree) ==
    CASE data.kind = "lazy" -> SameShape(data.serialize, tree)
      [] data.kind \in {"generator", "list", "tuple"} ->
            /\ tree.kind = "list"
            /\ DOMAIN tree.items = DOMAIN data.items
            /\ \A i \in DOMAIN data.items : SameShape(data.items[i], tree.items[i])
      [] data.kind = "dict" ->
            /\ tree.kind = "dict"
            /\ DOMAIN tree.items = DOMAIN data.items
            /\ \A i \in DOMAIN data.items :
                  /\ tree.items[i].key = data.items[i].key
                  /\ SameShape(data.items[i].val, tree.items[i].val)
      [] OTHER -> tree = data

\* C19: the tree serialized_data_to_python returns holds no generator and no lazy
\* wrapper at any depth, whatever container holds it: generators, lists and tuples
\* have become lists, mappings have the same keys in the same order, every other
\* value is unchanged, and the function applied to its own output returns an
\* equal tree.
C19_NoResidualLaziness ==
    Called
        => /\ NoLaziness(callOut.tree)
           /\ SameShape(callIn.data, callOut.tree)
           /\ callOut.again = callOut.tree

(***************************************************************************)
(* SpecReverse: serializer.py, exclude_fields on the way to a related      *)
(* object and in ModelSerializer._to_python                                *)
(***************************************************************************)

\* The descriptor classes _get_reverse_excluded_fields tests the attribute for
ReverseDescriptors == {"ForeignRelatedObjectsDescriptor", "SingleRelatedObjectDescriptor"}

\* What the attribute of the parent's model may be: one of the two, or anything else
Descriptors == ReverseDescriptors \cup {"other"}

\* Mutant: no field is excluded on the way to a related object
no_reverse_excluded_fields(descriptor, reverse_field_name) ==
    << >>

\* ModelSerializer._get_reverse_excluded_fields; reverse_field_name is what
\* get_reverse_field_name answers for the attribute
_get_reverse_excluded_fields(descriptor, reverse_field_name) ==
    IF descriptor \in ReverseDescriptors THEN <<reverse_field_name>> ELSE << >>

\* ModelSerializer._fields_to_python: the keys of the ordered mapping it fills with
\* out[field_name] = ... for the fields of the fieldset, in the order of insertion
RECURSIVE _fields_to_python(_)
_fields_to_python(fieldset) ==
    IF fieldset = << >> THEN << >>
    ELSE LET out        == _fields_to_python(SubSeq(fieldset, 1, Len(fieldset) - 1))
             field_name == fieldset[Len(fieldset)]
         IN  IF field_name \in Range(out) THEN out ELSE Append(out, field_name)

\* ModelSerializer._to_python of an object: the form and the keys of what it emits
model_to_python(obj, requested_fieldset, extended_fieldset, detailed, exclude_fields, direct_serialization, serialized_objects) ==
    LET fs == _get_fieldset(obj, extended_fieldset, requested_fieldset, exclude_fields,
                            detailed, direct_serialization, serialized_objects)
    IN  [ idle |-> FALSE, err |-> fs.err, short |-> fs.short,
          exclude_fields |-> exclude_fields,
          keys |-> IF fs.err = "none" THEN _fields_to_python(fs.fieldset) ELSE << >> ]

\* The requested fieldsets, the serialization paths and the objects of the study
ReverseRequests == {<< >>, <<"id", "name", "email">>, <<"email", "name">>}

ReversePaths == {{}, {<<"app_model", "__", 1>>}}

\* A direct call with the caller's exclude_fields, or a call through an attribute
\* of the parent that holds a manager (all) or one related instance (Model)
InitReverse ==
    /\ callIn \in
          [ entry : {"_to_python"}, obj : FsObjects, exclude_fields : ExcludeLists,
            requested_fieldset : ReverseRequests, detailed : BOOLEAN,
            direct_serialization : BOOLEAN, serialized_objects : ReversePaths ]
          \cup
          [ entry : {"all", "Model"}, obj : FsObjects, descriptor : Descriptors,
            reverse_field_name : FieldNames, requested_fieldset : ReverseRequests,
            detailed : BOOLEAN, direct_serialization : BOOLEAN,
            serialized_objects : ReversePaths ]
    /\ callOut = [idle |-> TRUE]
    /\ RestIdle

\* ModelSerializer._to_python called with exclude_fields
ToPython ==
    /\ callOut = [idle |-> TRUE] /\ callIn.entry = "_to_python"
    /\ callOut' = model_to_python(callIn.obj, callIn.requested_fieldset, << >>,
                                  callIn.detailed, callIn.exclude_fields,
                                  callIn.direct_serialization, callIn.serialized_objects)
    /\ UNCHANGED <<callIn, restVars>>

\* _field_to_python on an attribute with all(): _reverse_qs_to_python sets
\* exclude_fields and serializes each related row, here the row callIn.obj
ReverseQsToPython ==
    /\ callOut = [idle |-> TRUE] /\ callIn.entry = "all"
    /\ callOut' = model_to_python(callIn.obj, callIn.requested_fieldset, << >>,
                                  callIn.detailed,
                                  _get_reverse_excluded_fields(callIn.descriptor,
                                                               callIn.reverse_field_name),
                                  callIn.direct_serialization, callIn.serialized_objects)
    /\ UNCHANGED <<callIn, restVars>>

\* _field_to_python on an attribute holding a Model: _reverse_to_python sets
\* exclude_fields and serializes the related instance callIn.obj
ReverseToPython ==
    /\ callOut = [idle |-> TRUE] /\ callIn.entry = "Model"
    /\ callOut' = model_to_python(callIn.obj, callIn.requested_fieldset, << >>,
                                  callIn.detailed,
                                  _get_reverse_excluded_fields(callIn.descriptor,
                                                               callIn.reverse_field_name),
                                  callIn.direct_serialization, callIn.serialized_objects)
    /\ UNCHANGED <<callIn, restVars>>

NextReverse == ToPython \/ ReverseQsToPython \/ ReverseToPython

SpecReverse == InitReverse /\ [][NextReverse]_vars

\* The call has emitted an object and was made with a non-empty exclude_fields
Excluding == Called /\ callOut.err = "none" /\ callOut.exclude_fields # << >>

\* The call went through a reverse relation of the parent's model
ThroughReverse == callIn.entry \in {"all", "Model"} /\ callIn.descriptor \in ReverseDescriptors

\* C20 as stated: a call of ModelSerializer._to_python with a non-empty
\* exclude_fields emits no excluded field name as a key, and an object reached
\* through a reverse relation never emits the field that points back to its
\* parent, in the full form and in the primary-key-only form alike.
C20_NoExcludedKey ==
    /\ Excluding => Range(callOut.exclude_fields) \cap Range(callOut.keys) = {}
    /\ (Called /\ callOut.err = "none" /\ ThroughReverse)
          => callIn.reverse_field_name \notin Range(callOut.keys)

\* C20 amended: an object that is not yet serialized on the recursion path is
\* emitted with no excluded field name among its keys, so reached through a
\* reverse relation it does not emit the field that points back to its parent;
\* an object already serialized on the path is emitted with its primary-key
\* field alone, whether or not that field is excluded.
C20_NoExcludedKeyInFullForm ==
    /\ (Excluding /\ ~callOut.short)
          => Range(callOut.exclude_fields) \cap Range(callOut.keys) = {}
    /\ (Called /\ callOut.err = "none" /\ ThroughReverse)
          => /\ callOut.exclude_fields = <<callIn.reverse_field_name>>
             /\ ~callOut.short => callIn.reverse_field_name \notin Range(callOut.keys)
    /\ (Called /\ callOut.err = "none" /\ callOut.short)
          => callOut.keys = <<get_last_parent_pk_field_name>>

\* A related row reached through a reverse relation is emitted in full with other
\* fields, and without the field pointing back although it was requested
C20_Witness ==
    /\ Excluding /\ ThroughReverse /\ ~callOut.short
    /\ callIn.reverse_field_name \in Range(callIn.requested_fieldset)
    /\ Len(callOut.keys) >= 2

(***************************************************************************)
(* SpecMethod: serializer.py, method fields of ModelSerializer             *)
(***************************************************************************)

MaxParams == 2

RESERVED_FIELDS ==
    {"read", "update", "create", "delete", "model", "allowed_methods", "fields", "exclude"}

ParamNames == {"request", "obj", "pk"}

\* The parameter lists a callable may declare after its receiver
ParamLists ==
    UNION {{p \in [1..n -> ParamNames] : \A i, j \in 1..n : p[i] = p[j] => i = j} :
           n \in 0..MaxParams}

\* inspect.getargspec(method)[0] of a bound method and of a plain function
getargspec(callable) ==
    IF callable.kind = "method" THEN <<"self">> \o callable.params ELSE callable.params

\* args[1:]
DropFirst(args) == IF args = << >> THEN << >> ELSE Tail(args)

\* method(**method_kwargs): Python binds the keywords to the parameters the
\* callable still expects and raises TypeError when one is missing
invoke(callable, method_kwargs) ==
    IF Range(callable.params) = method_kwargs THEN "value" ELSE "TypeError"

\* ModelSerializer._method_to_python: falls off its end, returning None, when a
\* declared parameter cannot be supplied
_method_to_python(method, request_in_kwargs) ==
    LET method_kwargs_names == DropFirst(getargspec(method))
        fun_kwargs   == IF request_in_kwargs THEN {"request", "obj"} ELSE {"obj"}
        method_kwargs == Range(method_kwargs_names) \cap fun_kwargs
    IN  IF Len(method_kwargs_names) = Cardinality(method_kwargs)
        THEN [ invoked |-> TRUE, method_kwargs |-> method_kwargs,
               result |-> invoke(method, method_kwargs) ]
        ELSE [ invoked |-> FALSE, method_kwargs |-> {}, result |-> "None" ]

\* ModelSerializer._get_resource_method_fields: is the field a method of the resource
_get_resource_method_fields(field_name, resource_callable) ==
    field_name \notin RESERVED_FIELDS /\ resource_callable

\* ModelSerializer._field_to_python for a field that is no model field: a method of
\* the resource, else a callable attribute of the object, else the attribute's value
_field_to_python(field_name, method, resource_callable, obj_callable, request_in_kwargs) ==
    IF _get_resource_method_fields(field_name, resource_callable)
    THEN [source |-> "resource"] @@ _method_to_python(method, request_in_kwargs)
    ELSE IF obj_callable
    THEN [source |-> "obj"] @@ _method_to_python(method, request_in_kwargs)
    ELSE [ source |-> "value", invoked |-> FALSE, method_kwargs |-> {},
           result |-> "value" ]

InitMethod ==
    /\ callIn \in [ field_name : {"name", "read"},
                    method : [kind : {"method", "function"}, params : ParamLists],
                    resource_callable : BOOLEAN, obj_callable : BOOLEAN,
                    request_in_kwargs : BOOLEAN ]
    /\ callOut = [idle |-> TRUE]
    /\ RestIdle

\* ModelSerializer._fields_to_python on a fieldset of the one field:
\* out[field_name] = self._field_to_python(...), unless the call raises
FieldsToPython ==
    /\ callOut = [idle |-> TRUE]
    /\ LET val == _field_to_python(callIn.field_name, callIn.method,
                                   callIn.resource_callable, callIn.obj_callable,
                                   callIn.request_in_kwargs)
       IN  callOut' = [ idle |-> FALSE, field |-> val,
                        raised |-> val.result = "TypeError",
                        out |-> IF val.result = "TypeError" THEN << >>
                                ELSE <<[key |-> callIn.field_name, val |-> val.result]>> ]
    /\ UNCHANGED <<callIn, restVars>>

NextMethod == FieldsToPython

SpecMethod == InitMethod /\ [][NextMethod]_vars

\* The field is a method field, and what its method declares and can be given
IsMethodField == Called /\ callOut.field.source \in {"resource", "obj"}

Declared == Range(callIn.method.params)

Suppliable == IF callIn.request_in_kwargs THEN {"request", "obj"} ELSE {"obj"}

OutKeys == {callOut.out[i].key : i \in DOMAIN callOut.out}

\* C21: a method field's method is invoked with exactly those of request and obj
\* that it declares; when it declares a parameter that cannot be supplied it is
\* not invoked and the field's name is not a key of the emitted object.
C21_MethodField ==
    IsMethodField
        => /\ Declared \subseteq Suppliable
                => /\ callOut.field.invoked
                   /\ callOut.field.method_kwargs = Declared
                   /\ callIn.field_name \in OutKeys
           /\ ~(Declared \subseteq Suppliable)
                => /\ ~callOut.field.invoked
                   /\ callIn.field_name \notin OutKeys

(***************************************************************************)
(* SpecKeyed: serializer.py, the recursion of ModelSerializer._to_python   *)
(* over a graph whose models may keep their key in a one-to-one field      *)
(***************************************************************************)

MaxKeyedEdges   == 2
MaxKeyRelations == 2
MaxDepth        == 7

\* The graphs of the study: which objects the relation fields of an object hold
KeyedGraphs ==
    { [o \in Objs |-> {t \in Objs : <<o, t>> \in E}] :
      E \in {F \in SUBSET (Objs \X Objs) : Cardinality(F) <= MaxKeyedEdges} }

\* For every object the object its primary-key field points to, when the field
\* get_last_parent_pk_field_name answers is a OneToOneField(primary_key=True),
\* and 0 when the key is a plain column; no object is keyed by itself
KeyRelations ==
    { k \in [Objs -> Objs \cup {0}] :
        /\ \A o \in Objs : k[o] # o
        /\ Cardinality({o \in Objs : k[o] # 0}) <= MaxKeyRelations }

InitKeyed ==
    /\ rel \in KeyedGraphs
    /\ callIn \in [key : KeyRelations]
    /\ callOut = [idle |-> TRUE]
    /\ stack = << >>
    /\ emitted = << >>
    /\ FsIdle /\ RegIdle /\ RvIdle /\ ConvIdle /\ ThrIdle

\* The top-level call: object 1 is serialized with no serialized_objects given
SerializeKeyed ==
    /\ callOut = [idle |-> TRUE]
    /\ stack' = <<_to_python(rel, 1, TRUE, {})>>
    /\ callOut' = [idle |-> FALSE, done |-> FALSE, raised |-> "none"]
    /\ UNCHANGED <<callIn, rel, emitted, fsVars, regVars, rvVars, convVars, thrVars>>

\* The object the field at the head of the top frame's fieldset holds, 0 for a value
Related ==
    IF Head(Top.todo) = get_last_parent_pk_field_name
    THEN callIn.key[Top.obj] ELSE TargetOf(Head(Top.todo))

\* _fields_to_python on a field holding a plain value: _model_field_to_python with
\* no field.rel
ValueField ==
    /\ stack # << >> /\ Top.todo # << >>
    /\ Related = 0
    /\ stack' = WithTop([Top EXCEPT !.todo = Tail(@)])
    /\ UNCHANGED <<callVars, rel, emitted, fsVars, regVars, rvVars, convVars, thrVars>>

\* _fields_to_python on a field holding a model instance: _model_field_to_python
\* hands getattr(obj, field.name) to ModelSerializer._to_python with the kwargs of
\* the frame, in the full and in the primary-key-only form alike
ModelField ==
    /\ stack # << >> /\ Top.todo # << >>
    /\ Related # 0
    /\ Len(stack) < MaxDepth
    /\ stack' = Append(WithTop([Top EXCEPT !.todo = Tail(@)]),
                       _to_python(rel, Related, FALSE, Top.serialized_objects))
    /\ UNCHANGED <<callVars, rel, emitted, fsVars, regVars, rvVars, convVars, thrVars>>

\* The interpreter's recursion limit is reached: the call ends with RecursionError
RecursionLimit ==
    /\ stack # << >> /\ Top.todo # << >>
    /\ Related # 0
    /\ Len(stack) = MaxDepth
    /\ stack' = << >>
    /\ callOut' = [callOut EXCEPT !.done = TRUE, !.raised = "RecursionError"]
    /\ UNCHANGED <<callIn, rel, emitted, fsVars, regVars, rvVars, convVars, thrVars>>

\* _fields_to_python has gone through the fieldset: the call returns
ReturnKeyed ==
    /\ stack # << >> /\ Top.todo = << >>
    /\ stack' = SubSeq(stack, 1, Len(stack) - 1)
    /\ callOut' = IF Len(stack) = 1 THEN [callOut EXCEPT !.done = TRUE] ELSE callOut
    /\ UNCHANGED <<callIn, rel, emitted, fsVars, regVars, rvVars, convVars, thrVars>>

NextKeyed == SerializeKeyed \/ ValueField \/ ModelField \/ RecursionLimit \/ ReturnKeyed

SpecKeyed == InitKeyed /\ [][NextKeyed]_vars

\* Every call on the stack has its own object in its serialized_objects
MarkedBeforeFields ==
    \A i \in DOMAIN stack :
        _get_obj_serialization_name(GraphObj(rel, stack[i].obj)) \in stack[i].serialized_objects

\* A call's set is what its caller's set was with the call's own object added
OwnCopies ==
    \A i \in DOMAIN stack :
        stack[i].serialized_objects =
            {_get_obj_serialization_name(GraphObj(rel, stack[j].obj)) : j \in 1..i}

\* Along the path no identity is expanded with its full field set twice
FullOncePerPath ==
    \A i, j \in DOMAIN stack :
        (i < j /\ ~stack[i].short /\ ~stack[j].short) => stack[i].obj # stack[j].obj

\* C22: an object's identity is in serialized_objects before its fields are
\* recursed into, every call works on its own copy of the set, along every
\* recursion path an identity is expanded in full at most once, and so the
\* serialization of a finite graph ends, with a recursion depth of at most the
\* number of distinct objects plus one.
C22_BoundedRecursion ==
    /\ MarkedBeforeFields
    /\ OwnCopies
    /\ FullOncePerPath
    /\ Len(stack) <= NumObjs + 1
    /\ Called => callOut.raised = "none"

(***************************************************************************)
(* SpecForward: serializer.py, the keyword arguments the collection        *)
(* serializers hand on to the serializer chain of their elements           *)
(***************************************************************************)

\* value_serializers once serializer.py is imported: register() has run on the
\* first n decorated classes
RECURSIVE LoadedSerializers(_)
LoadedSerializers(n) ==
    IF n = 0 THEN << >>
    ELSE register(LoadedSerializers(n - 1), ModuleSerializers[n]).value_serializers

\* The keyword arguments a caller may pass, each with the value it has when passed
KwargValues ==
    [ requested_fieldset |-> <<"email", "name">>, extended_fieldset |-> <<"email">>,
      detailed |-> TRUE, exclude_fields |-> <<"name">>, request |-> "request",
      via |-> "via", direct_serialization |-> TRUE,
      serialized_objects |-> {<<"app_model", "__", 1>>} ]

Kwargs == {[n \in D |-> KwargValues[n]] : D \in SUBSET DOMAIN KwargValues}

CollectionTypes == {"list", "tuple", "set", "dict", "QuerySet"}

\* The parameters DictSerializer._to_python and ListSerializer._to_python name
NamedParameters == {"requested_fieldset", "extended_fieldset", "detailed", "exclude_fields"}

\* kwargs.get(name, default)
kwargs_get(kwargs, name, default) == IF name \in DOMAIN kwargs THEN kwargs[name] ELSE default

\* Mutant: the collection serializers hand on every argument they were given
to_python_kwargs_all(klass, kwargs) ==
    kwargs

\* The **kwargs left in klass._to_python(thing, serialization_format, ...), which it
\* hands to _to_python_chain for every element: a parameter the signature names is
\* bound to it and is not part of kwargs
to_python_kwargs(klass, kwargs) ==
    IF klass \in {"DictSerializer", "ListSerializer"}
    THEN [n \in DOMAIN kwargs \ NamedParameters |-> kwargs[n]]
    ELSE kwargs

\* ModelSerializer._to_python(obj, serialization_format, **kwargs): a parameter that
\* is not passed takes the default of the signature
model_to_python_kwargs(obj, kwargs) ==
    model_to_python(obj, kwargs_get(kwargs, "requested_fieldset", << >>),
                    kwargs_get(kwargs, "extended_fieldset", << >>),
                    kwargs_get(kwargs, "detailed", FALSE),
                    kwargs_get(kwargs, "exclude_fields", << >>),
                    kwargs_get(kwargs, "direct_serialization", FALSE),
                    kwargs_get(kwargs, "serialized_objects", {}))

InitForward ==
    /\ callIn \in [type : CollectionTypes, element : FsObjects, kwargs : Kwargs]
    /\ callOut = [idle |-> TRUE]
    /\ RestIdle

\* Serializer._to_python on a collection holding a model instance: the chain finds
\* the collection's serializer, which runs the chain on the element
CollectionToPython ==
    /\ callOut = [idle |-> TRUE]
    /\ LET serializer == _find_to_serializer(LoadedSerializers(Len(ModuleSerializers)),
                                             callIn.type)
           forwarded  == to_python_kwargs(serializer, callIn.kwargs)
       IN  callOut' = [ idle |-> FALSE, serializer |-> serializer,
                        kwargs |-> forwarded,
                        element |-> model_to_python_kwargs(callIn.element, forwarded) ]
    /\ UNCHANGED <<callIn, restVars>>

NextForward == CollectionToPython

SpecForward == InitForward /\ [][NextForward]_vars

\* The collection is a list, a tuple, a set or a mapping
PlainCollection == callIn.type \in {"list", "tuple", "set", "dict"}

\* What the element emits when the caller passes only the arguments named in names
ElementGiven(names) ==
    model_to_python_kwargs(callIn.element,
                           [n \in DOMAIN callIn.kwargs \cap names |-> callIn.kwargs[n]])

\* C23: the list and the mapping serializer serialize their elements with
\* requested_fieldset, extended_fieldset, detailed and exclude_fields at their
\* defaults whatever the caller passed and hand on the rest of the context, the
\* queryset serializer hands on every argument; so a requested fieldset given for
\* a list, tuple, set or mapping does not select the fields of the instances in
\* it, while an instance already in serialized_objects is still cut to its key.
C23_ContextForwarding ==
    Called
        => /\ PlainCollection
                => /\ callOut.serializer \in {"DictSerializer", "ListSerializer"}
                   /\ DOMAIN callOut.kwargs = DOMAIN callIn.kwargs \ NamedParameters
                   /\ \A n \in DOMAIN callOut.kwargs : callOut.kwargs[n] = callIn.kwargs[n]
                   /\ callOut.element
                          = ElementGiven({"direct_serialization", "serialized_objects"})
           /\ callIn.type = "QuerySet"
                => /\ callOut.serializer = "QuerySetSerializer"
                   /\ callOut.kwargs = callIn.kwargs
                   /\ callOut.element = ElementGiven(DOMAIN KwargValues)
           /\ ( /\ "serialized_objects" \in DOMAIN callIn.kwargs
                /\ _get_obj_serialization_name(callIn.element)
                       \in callIn.kwargs.serialized_objects )
                => /\ callOut.element.short
                   /\ callOut.element.keys = <<get_last_parent_pk_field_name>>

\* A list of an instance serialized with a requested fieldset and with other
\* context: the instance is emitted in full and not with the fields the requested
\* fieldset would have selected
C23_Witness ==
    /\ Called /\ callIn.type = "list"
    /\ {"requested_fieldset", "request", "via"} \subseteq DOMAIN callIn.kwargs
    /\ ~callOut.element.short /\ callOut.element.err = "none"
    /\ callOut.element.keys # ElementGiven(DOMAIN KwargValues).keys

====
